---- MODULE Spec2Model ----
(***************************************************************************)
(* Model of the DICOM -> 3D pipeline of SID3D (app/arquivo3D/factory.py)   *)
(* and of its callers (service.py, background_processor.py).               *)
(*                                                                         *)
(* Units.  Scalar (voxel) values are float32 in the code; here they are    *)
(* fixed-point integers in units of 1/VScale, so that the luminance        *)
(* weights, the range midpoint and the 30% level are exact.  z positions   *)
(* are in tenths (the frame increment 0.1 is 1), spacings in twentieths    *)
(* (the fallback 1.0 is 20).  Python indices are 0-based, TLA+ sequences   *)
(* 1-based: element i of a Python array is element i + 1 here.             *)
(***************************************************************************)
EXTENDS Integers, Sequences, FiniteSets, TLC

VARIABLES factory, inv, jobs, running_jobs, tasks

vars == <<factory, inv, jobs, running_jobs, tasks>>

\* the state of the background conversion (job table, _running_jobs, asyncio tasks)
jobvars == <<jobs, running_jobs, tasks>>

\* ------------------------------------------------------------------ bounds
\* most datasets handed to one call
MaxFiles == 3
\* slice indices tried run from -IndexMargin to (largest extent) + IndexMargin
IndexMargin == 1

\* fixed-point unit of scalar values (1.0 == VScale)
VScale == 10 * 10000

\* an empty dict (the job table before create_job, _running_jobs of line 36)
NoJobs == <<>>

\* ------------------------------------------------------- generic helpers
Max2(a, b) == IF a >= b THEN a ELSE b
Min2(a, b) == IF a <= b THEN a ELSE b

RECURSIVE SeqMin(_)
SeqMin(s) == IF Len(s) = 1 THEN s[1] ELSE Min2(s[1], SeqMin(Tail(s)))

RECURSIVE SeqMax(_)
SeqMax(s) == IF Len(s) = 1 THEN s[1] ELSE Max2(s[1], SeqMax(Tail(s)))

RECURSIVE Flatten(_)
Flatten(ss) == IF ss = <<>> THEN <<>> ELSE ss[1] \o Flatten(Tail(ss))

\* all sequences over S of length 1..n
SeqsUpTo(S, n) == UNION {[1..k -> S] : k \in 1..n}

\* ------------------------------------------------------ DICOM datasets
\* A metadata attribute: absent, present but not convertible by float()/int(),
\* or present with value v.
NoAttr == [has |-> FALSE, ok |-> FALSE, v |-> 0]
BadAttr == [has |-> TRUE, ok |-> FALSE, v |-> 0]
Attr(x) == [has |-> TRUE, ok |-> TRUE, v |-> x]
NoAttr2 == [has |-> FALSE, ok |-> FALSE, v |-> <<0, 0>>]
BadAttr2 == [has |-> TRUE, ok |-> FALSE, v |-> <<0, 0>>]

\* A dataset as pydicom.dcmread sees it.  decode: "ok", "unreadable" (dcmread
\* raises), "nopixel" (no pixel_array attribute), "pixelerror" (decoding the
\* pixel data raises).  The pixel array has the given shape and holds
\* base + step . index at each (0-based) index.
Blank ==
  [decode |-> "ok", shape |-> <<2, 2>>, base |-> 0, step |-> <<0, 0, 0, 0>>,
   PixelSpacing |-> NoAttr2, SliceThickness |-> NoAttr,
   SpacingBetweenSlices |-> NoAttr, RescaleSlope |-> NoAttr,
   RescaleIntercept |-> NoAttr, SliceLocation |-> NoAttr,
   ImagePositionPatient |-> NoAttr, NumberOfFrames |-> NoAttr]

RECURSIVE Dot(_, _)
Dot(step, idx) == IF idx = <<>> THEN 0 ELSE step[1] * idx[1] + Dot(Tail(step), Tail(idx))

\* dataset.pixel_array.astype(np.float32)[idx]
RawVal(ds, idx) == (ds.base + Dot(ds.step, idx)) * VScale

HasRescale(ds) == ds.RescaleSlope.has /\ ds.RescaleIntercept.has

\* float(RescaleSlope) or float(RescaleIntercept) raises
RescaleRaises(ds) == HasRescale(ds) /\ ~(ds.RescaleSlope.ok /\ ds.RescaleIntercept.ok)

\* slice_data[idx] after slice_data * slope + intercept
Val(ds, idx) ==
  IF HasRescale(ds)
  THEN RawVal(ds, idx) * ds.RescaleSlope.v + ds.RescaleIntercept.v * VScale
  ELSE RawVal(ds, idx)

\* ---------------------------------------------- _create_3d_volume (113-251)
\* z_position_base, in tenths (lines 162-172)
ZPositionBase(ds) ==
  IF ds.SliceLocation.has
  THEN (IF ds.SliceLocation.ok THEN ds.SliceLocation.v ELSE 0)
  ELSE IF ds.ImagePositionPatient.has
       THEN (IF ds.ImagePositionPatient.ok THEN ds.ImagePositionPatient.v ELSE 0)
       ELSE 0

\* the 2-D array slice_data itself (ndim = 2)
Plane2D(ds) ==
  [r \in 1..ds.shape[1] |-> [c \in 1..ds.shape[2] |-> Val(ds, <<r - 1, c - 1>>)]]

\* slice_data[i] of a 3-D array
Frame(ds, i) ==
  [r \in 1..ds.shape[2] |-> [c \in 1..ds.shape[3] |-> Val(ds, <<i, r - 1, c - 1>>)]]

\* rgb[..., 0] * 0.2989 + rgb[..., 1] * 0.5870 + rgb[..., 2] * 0.1140; the
\* channel values are whole multiples of 10000 units, each is divided first
Gray(ds) ==
  [r \in 1..ds.shape[1] |-> [c \in 1..ds.shape[2] |->
     2989 * (Val(ds, <<r - 1, c - 1, 0>>) \div 10000)
       + 5870 * (Val(ds, <<r - 1, c - 1, 1>>) \div 10000)
       + 1140 * (Val(ds, <<r - 1, c - 1, 2>>) \div 10000)]]

\* int(dataset.NumberOfFrames), None when absent or not convertible (179-184)
NumFrames(ds) ==
  IF ds.NumberOfFrames.has /\ ds.NumberOfFrames.ok THEN ds.NumberOfFrames.v ELSE 0

\* one entry of the list `slices`: (z, slice_data); file and frame record
\* where the slice came from (file: 1-based position in the input).
SliceOf(z, data, file, frame) == [z |-> z, data |-> data, file |-> file, frame |-> frame]

\* mutant: the colour interpretation is tried before the declared frame count
Contribution_ColourFirst(ds, file) ==
  LET zb == ZPositionBase(ds)
      ndim == Len(ds.shape)
      frames == [i \in 1..ds.shape[1] |-> SliceOf(zb + (i - 1), Frame(ds, i - 1), file, i - 1)]
  IN IF ndim = 2 THEN <<SliceOf(zb, Plane2D(ds), file, 0)>>
     ELSE IF ndim = 3
     THEN IF ds.shape[3] \in {3, 4} THEN <<SliceOf(zb, Gray(ds), file, 0)>>
          ELSE IF NumFrames(ds) # 0 /\ ds.shape[1] = NumFrames(ds) THEN frames
          ELSE IF ds.shape[1] > 4 /\ ds.shape[1] # ds.shape[2] THEN frames
          ELSE <<SliceOf(zb, Frame(ds, 0), file, 0)>>
     ELSE <<>>

\* mutant: the frames of a stack are keyed downwards from the base key
Contribution_FramesDescending(ds, file) ==
  LET zb == ZPositionBase(ds)
      ndim == Len(ds.shape)
      frames == [i \in 1..ds.shape[1] |-> SliceOf(zb - (i - 1), Frame(ds, i - 1), file, i - 1)]
  IN IF ndim = 2 THEN <<SliceOf(zb, Plane2D(ds), file, 0)>>
     ELSE IF ndim = 3
     THEN IF NumFrames(ds) # 0 /\ ds.shape[1] = NumFrames(ds) THEN frames
          ELSE IF ds.shape[3] \in {3, 4} THEN <<SliceOf(zb, Gray(ds), file, 0)>>
          ELSE IF ds.shape[1] > 4 /\ ds.shape[1] # ds.shape[2] THEN frames
          ELSE <<SliceOf(zb, Frame(ds, 0), file, 0)>>
     ELSE <<>>

\* the slices one dataset appends (lines 174-215)
Contribution(ds, file) ==
  LET zb == ZPositionBase(ds)
      ndim == Len(ds.shape)
      frames == [i \in 1..ds.shape[1] |-> SliceOf(zb + (i - 1), Frame(ds, i - 1), file, i - 1)]
  IN IF ndim = 2 THEN <<SliceOf(zb, Plane2D(ds), file, 0)>>
     ELSE IF ndim = 3
     THEN IF NumFrames(ds) # 0 /\ ds.shape[1] = NumFrames(ds) THEN frames
          ELSE IF ds.shape[3] \in {3, 4} THEN <<SliceOf(zb, Gray(ds), file, 0)>>
          ELSE IF ds.shape[1] > 4 /\ ds.shape[1] # ds.shape[2] THEN frames
          ELSE <<SliceOf(zb, Frame(ds, 0), file, 0)>>
     ELSE <<>>

\* the local state of the loop: slices, px_spacing, z_spacing (None is <<>>)
LoopStart == [slices |-> <<>>, px_spacing |-> <<>>, z_spacing |-> <<>>]

\* mutant: a dataset that cannot be used discards what was collected
ProcessFile_Aborting(st, ds, file) ==
  IF ds.decode # "ok" \/ RescaleRaises(ds) THEN LoopStart
  ELSE [st EXCEPT !.slices = @ \o Contribution(ds, file)]

\* one iteration of the loop over the input (lines 125-219); an exception in
\* the body is caught and the loop continues with what was assigned so far
ProcessFile(st, ds, file) ==
  IF ds.decode # "ok" THEN st
  ELSE
    LET px == IF ds.PixelSpacing.has /\ st.px_spacing = <<>>
              THEN (IF ds.PixelSpacing.ok THEN ds.PixelSpacing.v ELSE <<>>)
              ELSE st.px_spacing
        zs == IF st.z_spacing # <<>> THEN st.z_spacing
              ELSE IF ds.SliceThickness.has
                   THEN (IF ds.SliceThickness.ok THEN <<ds.SliceThickness.v>> ELSE <<>>)
              ELSE IF ds.SpacingBetweenSlices.has
                   THEN (IF ds.SpacingBetweenSlices.ok THEN <<ds.SpacingBetweenSlices.v>> ELSE <<>>)
              ELSE <<>>
        st1 == [st EXCEPT !.px_spacing = px, !.z_spacing = zs]
    IN IF RescaleRaises(ds) THEN st1
       ELSE [st1 EXCEPT !.slices = @ \o Contribution(ds, file)]

RECURSIVE ProcessFiles(_, _, _)
ProcessFiles(files, file, st) ==
  IF file > Len(files) THEN st
  ELSE ProcessFiles(files, file + 1, ProcessFile(st, files[file], file))

\* list.sort(key=lambda x: x[0]) is stable: an entry goes after every entry
\* whose key is not larger
RECURSIVE InsertByZ(_, _)
\* mutant: the sort descends
InsertByZ_Descending(sorted, x) ==
  IF sorted = <<>> THEN <<x>>
  ELSE IF sorted[1].z >= x.z THEN <<sorted[1]>> \o InsertByZ(Tail(sorted), x)
  ELSE <<x>> \o sorted

InsertByZ(sorted, x) ==
  IF sorted = <<>> THEN <<x>>
  ELSE IF sorted[1].z <= x.z THEN <<sorted[1]>> \o InsertByZ(Tail(sorted), x)
  ELSE <<x>> \o sorted

RECURSIVE SortByZFrom(_, _)
SortByZFrom(done, rest) ==
  IF rest = <<>> THEN done ELSE SortByZFrom(InsertByZ(done, rest[1]), Tail(rest))

SortByZ(slices) == SortByZFrom(<<>>, slices)

Shape2(data) == <<Len(data), Len(data[1])>>

\* np.stack raises unless every array has the shape of the first
StackRaises(slices) == \E i \in 1..Len(slices) : Shape2(slices[i].data) # Shape2(slices[1].data)

RECURSIVE InsertInt(_, _)
InsertInt(sorted, x) ==
  IF sorted = <<>> THEN <<x>>
  ELSE IF sorted[1] <= x THEN <<sorted[1]>> \o InsertInt(Tail(sorted), x)
  ELSE <<x>> \o sorted

RECURSIVE SortInts(_)
SortInts(s) == IF s = <<>> THEN <<>> ELSE InsertInt(SortInts(Tail(s)), s[1])

\* np.diff(sorted(zs)), in tenths
Diffs(zs) == [i \in 1..(Len(zs) - 1) |-> zs[i + 1] - zs[i]]

\* float(np.median(diffs)), from tenths to twentieths
MedianTwentieths(diffs) ==
  LET s == SortInts(diffs)
      n == Len(s)
  IN IF n % 2 = 1 THEN 2 * s[(n + 1) \div 2] ELSE s[n \div 2] + s[n \div 2 + 1]

\* self.voxel_spacing as assigned at line 248 (lines 230-248)
VoxelSpacing(st, sorted) ==
  LET diffs == Diffs([i \in 1..Len(sorted) |-> sorted[i].z])
      z1 == IF st.px_spacing # <<>> /\ st.z_spacing = <<>> /\ Len(diffs) > 0
            THEN <<MedianTwentieths(diffs)>> ELSE st.z_spacing
      px == IF st.px_spacing = <<>> THEN <<20, 20>> ELSE st.px_spacing
      z2 == IF z1 = <<>> THEN 20 ELSE z1[1]
  IN <<z2, px[1], px[2]>>

\* mutant: slices that do not have the first slice's shape are left out
CreateVolume_DropMismatch(files) ==
  LET st == ProcessFiles(files, 1, LoopStart)
      sorted == SortByZ(st.slices)
      kept == SelectSeq(sorted, LAMBDA x : Shape2(x.data) = Shape2(sorted[1].data))
  IN IF st.slices = <<>>
     THEN [err |-> "no_valid_slices", slices |-> <<>>, volume |-> <<>>, voxel_spacing |-> <<>>]
     ELSE [err |-> "", slices |-> sorted,
           volume |-> [k \in 1..Len(kept) |-> kept[k].data],
           voxel_spacing |-> VoxelSpacing(st, sorted)]

\* The outcome of _create_3d_volume: err is "" on success; slices is the sorted
\* list, volume the stacked array (depth x rows x cols), voxel_spacing the value
\* stored in self.voxel_spacing (stored only on success).
CreateVolume(files) ==
  LET st == ProcessFiles(files, 1, LoopStart)
      sorted == SortByZ(st.slices)
  IN IF st.slices = <<>>
     THEN [err |-> "no_valid_slices", slices |-> <<>>, volume |-> <<>>, voxel_spacing |-> <<>>]
     ELSE IF StackRaises(sorted)
     THEN [err |-> "stack_shape_mismatch", slices |-> sorted, volume |-> <<>>, voxel_spacing |-> <<>>]
     ELSE [err |-> "", slices |-> sorted,
           volume |-> [k \in 1..Len(sorted) |-> sorted[k].data],
           voxel_spacing |-> VoxelSpacing(st, sorted)]

\* no volume yet
NoVolume == [err |-> "", slices |-> <<>>, volume |-> <<>>, voxel_spacing |-> <<>>]

\* volume.shape
Shape3(volume) == <<Len(volume), Len(volume[1]), Len(volume[1][1])>>

\* ------------------------------------------------ results of an invocation
NoRet == [kind |-> "none", exc |-> "", err |-> ""]
Raise(exc, err) == [kind |-> "raise", exc |-> exc, err |-> err]

\* the exception _create_3d_volume ends with
VolumeError(cv) == Raise("ValueError", cv.err)

\* ----------------------------------------- _extract_slice_data (549-564)
\* numpy's a[i] on an axis of length n: a negative i counts from the end;
\* 0 when numpy itself would raise IndexError
NpIndex(n, i) == IF 0 <= i /\ i < n THEN i + 1 ELSE IF -n <= i /\ i < 0 THEN n + i + 1 ELSE 0

Planes == {"axial", "coronal", "sagittal"}

Axis(plane) == CASE plane = "axial" -> 1 [] plane = "coronal" -> 2 [] plane = "sagittal" -> 3

\* mutant: only the upper bound is checked
IndexOutOfRange_NoLowerBound(volume, plane, index) ==
  ~(index < Shape3(volume)[Axis(plane)])

\* the guard `not 0 <= index < volume.shape[axis]`
IndexOutOfRange(volume, plane, index) ==
  ~(0 <= index /\ index < Shape3(volume)[Axis(plane)])

\* mutant: coronal and sagittal index each other's axis
TakeSlice_AxesSwapped(volume, plane, index) ==
  LET shape == Shape3(volume)
      k == NpIndex(shape[Axis(plane)], index)
  IN CASE plane = "axial" -> volume[k]
       [] plane = "sagittal" -> [d \in 1..shape[1] |-> volume[d][Min2(k, shape[2])]]
       [] plane = "coronal" ->
            [d \in 1..shape[1] |-> [r \in 1..shape[2] |-> volume[d][r][Min2(k, shape[3])]]]

\* volume[index, :, :], volume[:, index, :], volume[:, :, index]
TakeSlice(volume, plane, index) ==
  LET shape == Shape3(volume)
      k == NpIndex(shape[Axis(plane)], index)
  IN CASE plane = "axial" -> volume[k]
       [] plane = "coronal" -> [d \in 1..shape[1] |-> volume[d][k]]
       [] plane = "sagittal" -> [d \in 1..shape[1] |-> [r \in 1..shape[2] |-> volume[d][r][k]]]

ExtractSliceData(volume, plane, index) ==
  IF plane \notin Planes THEN [ret |-> Raise("ValueError", "invalid_plane"), data |-> <<>>]
  ELSE IF IndexOutOfRange(volume, plane, index)
  THEN [ret |-> Raise("IndexError", "index_out_of_range"), data |-> <<>>]
  ELSE IF NpIndex(Shape3(volume)[Axis(plane)], index) = 0
  THEN [ret |-> Raise("IndexError", "numpy_index"), data |-> <<>>]
  ELSE [ret |-> NoRet, data |-> TakeSlice(volume, plane, index)]

\* ----------------------------------------- _normalize_to_image (566-573)
\* slice_data.min(), slice_data.max()
ArrMin(data) == SeqMin(Flatten(data))
ArrMax(data) == SeqMax(Flatten(data))

\* mutant: the minimum is not subtracted
Interp255_NoOffset(x, lo, hi) == (255 * x) \div hi

\* np.interp(x, (lo, hi), (0, 255)).astype(np.uint8) for lo <= x <= hi, lo < hi:
\* the end points map to 0 and 255 exactly, the cast truncates
Interp255(x, lo, hi) == (255 * (x - lo)) \div (hi - lo)

\* the range the slice is normalised with
NormRange(slice_data) == <<ArrMin(slice_data), ArrMax(slice_data)>>

NormalizeToImage(slice_data) ==
  LET rng == NormRange(slice_data)
  IN IF rng[1] = rng[2]
     THEN [r \in 1..Len(slice_data) |-> [c \in 1..Len(slice_data[1]) |-> 0]]
     ELSE [r \in 1..Len(slice_data) |-> [c \in 1..Len(slice_data[1]) |->
             Interp255(slice_data[r][c], rng[1], rng[2]) % 256]]

\* Image.fromarray(...).save(buffer, format="PNG"): a lossless encoding of an
\* 8-bit image of the given height and width
Png(image) == [kind |-> "png", exc |-> "", err |-> "", height |-> Len(image),
               width |-> Len(image[1]), pixels |-> image]

\* ------------------------------------------------------------ the factory
\* Arquivo3DFactoryImpl.__init__ with its defaults; simplify_target_faces and
\* voxel_spacing are attributes that do not exist until first assigned (<<>>)
Factory0 ==
  [iso_value |-> 100 * VScale, smooth |-> TRUE, smooth_iterations |-> 3,
   simplify_target_faces |-> <<>>, voxel_spacing |-> <<>>]

\* self after _create_3d_volume(files) ran
AfterCreateVolume(f, cv) ==
  IF cv.err = "" THEN [f EXCEPT !.voxel_spacing = cv.voxel_spacing] ELSE f

\* ------------------------------------------------------ input catalogue
\* a single-frame dataset of the given shape with SliceLocation z (tenths)
Single(shape, z, base, step) ==
  [Blank EXCEPT !.shape = shape, !.SliceLocation = Attr(z), !.base = base, !.step = step]

\* The datasets the inputs are drawn from; a call's `files` is a sequence of
\* positions in this catalogue (a byte buffer stands for the dataset it decodes to).
Datasets ==
  << Single(<<2, 3>>, 50, 0, <<1, 2, 0, 0>>),
     Single(<<2, 3>>, 10, 3, <<0, 0, 0, 0>>),
     [Single(<<2, 3>>, 0, 1, <<3, 1, 0, 0>>) EXCEPT
         !.SliceLocation = NoAttr, !.ImagePositionPatient = Attr(30),
         !.RescaleSlope = Attr(2), !.RescaleIntercept = Attr(-1)],
     Single(<<2, 2>>, 20, 0, <<1, 1, 0, 0>>),
     [Single(<<2, 2, 3>>, 20, 0, <<4, 1, 1, 0>>) EXCEPT !.NumberOfFrames = Attr(2)],
     [Blank EXCEPT !.decode = "unreadable"],
     [Blank EXCEPT !.decode = "nopixel"],
     [Single(<<2, 3>>, 40, 0, <<1, 1, 0, 0>>) EXCEPT
         !.RescaleSlope = BadAttr, !.RescaleIntercept = Attr(0)],
     [Single(<<2, 2>>, 0, 0, <<1, 2, 0, 0>>) EXCEPT
         !.PixelSpacing = [has |-> TRUE, ok |-> TRUE, v |-> <<10, 10>>],
         !.SliceThickness = Attr(40)],
     [Single(<<2, 2>>, 40, 2, <<2, 1, 0, 0>>) EXCEPT
         !.PixelSpacing = [has |-> TRUE, ok |-> TRUE, v |-> <<10, 10>>],
         !.SliceThickness = Attr(40)],
     [Single(<<2, 2>>, 0, 1, <<1, 0, 0, 0>>) EXCEPT !.SliceThickness = Attr(60)],
     \* 12: a colour image (rows, columns, channels)
     Single(<<2, 2, 3>>, 30, 1, <<1, 2, 3, 0>>),
     \* 13: a stack of 5 planes that declares no frame count
     Single(<<5, 2, 2>>, 18, 0, <<1, 0, 1, 0>>),
     \* 14: a stack of 4 planes that declares no frame count
     Single(<<4, 2, 2>>, 10, 2, <<3, 1, 0, 0>>),
     \* 15: a 4-dimensional array (frames of a colour image)
     Single(<<2, 2, 2, 3>>, 20, 0, <<1, 1, 1, 1>>),
     \* 16: a 1-dimensional array
     Single(<<3>>, 20, 0, <<1, 0, 0, 0>>),
     \* 17: SliceLocation present without a value, ImagePositionPatient given
     [Single(<<2, 2>>, 0, 4, <<0, 1, 0, 0>>) EXCEPT
         !.SliceLocation = BadAttr, !.ImagePositionPatient = Attr(30)],
     \* 18: a colour image whose declared frame count is not its first axis
     [Single(<<2, 2, 3>>, 50, 0, <<2, 0, 1, 0>>) EXCEPT !.NumberOfFrames = Attr(5)],
     \* 19: pixel spacing declared, no slice thickness
     [Single(<<2, 2>>, 70, 1, <<1, 1, 0, 0>>) EXCEPT
         !.PixelSpacing = [has |-> TRUE, ok |-> TRUE, v |-> <<10, 10>>]],
     \* 20: 5 planes of 5 rows
     Single(<<5, 5, 2>>, 60, 0, <<1, 1, 1, 0>>),
     \* 21: inter-slice spacing declared, no slice thickness
     [Single(<<2, 2>>, 40, 0, <<0, 0, 0, 0>>) EXCEPT !.SpacingBetweenSlices = Attr(50)] >>

\* dicom_files_content as pydicom decodes it
Decoded(files) == [k \in 1..Len(files) |-> Datasets[files[k]]]

\* --------------------------------------------- get_volume_dimensions (540-547)
\* cv is the invocation's local volume_3d (with the sorted slice list it was
\* stacked from), slice_data its local of that name
GetVolumeDimensions(p) ==
  /\ inv[p].op = "get_volume_dimensions"
  /\ inv[p].pc = "call"
  /\ UNCHANGED jobvars
  /\ IF inv[p].files = <<>>
     THEN /\ inv' = [inv EXCEPT ![p].pc = "done", ![p].ret = Raise("ValueError", "no_files")]
          /\ UNCHANGED factory
     ELSE \E cv \in {CreateVolume(Decoded(inv[p].files))} :
          /\ factory' = AfterCreateVolume(factory, cv)
          /\ inv' = [inv EXCEPT ![p].pc = "done", ![p].cv = cv,
                        ![p].ret = IF cv.err # "" THEN VolumeError(cv)
                                   ELSE [kind |-> "dims", exc |-> "", err |-> "",
                                         dims |-> Shape3(cv.volume)]]

\* --------------------------------------------------- get_slice_image (517-538)
GetSliceImage(p) ==
  /\ inv[p].op = "get_slice_image"
  /\ inv[p].pc = "call"
  /\ UNCHANGED jobvars
  /\ IF inv[p].files = <<>>
     THEN /\ inv' = [inv EXCEPT ![p].pc = "done", ![p].ret = Raise("ValueError", "no_files")]
          /\ UNCHANGED factory
     ELSE \E cv \in {CreateVolume(Decoded(inv[p].files))} :
          /\ factory' = AfterCreateVolume(factory, cv)
          /\ IF cv.err # ""
             THEN inv' = [inv EXCEPT ![p].pc = "done", ![p].cv = cv, ![p].ret = VolumeError(cv)]
             ELSE \E ex \in {ExtractSliceData(cv.volume, inv[p].plane, inv[p].index)} :
                  inv' = [inv EXCEPT ![p].pc = "done", ![p].cv = cv,
                             ![p].slice_data = ex.data,
                             ![p].ret = IF ex.ret.kind = "raise" THEN ex.ret
                                        ELSE Png(NormalizeToImage(ex.data))]

\* ------------------------------------------------------------ SpecVolume
\* the catalogue entries SpecVolume draws from
VolDatasets == 1..8

\* rows and columns of these datasets are at most 3: indices around every extent
VolIndices == (0 - IndexMargin)..(3 + IndexMargin)

VolFiles == {<<>>} \cup SeqsUpTo(VolDatasets, MaxFiles)

InitVolume ==
  /\ jobs = NoJobs /\ running_jobs = NoJobs /\ tasks = <<>>
  /\ factory = Factory0
  /\ \E fs \in VolFiles, op \in {"get_volume_dimensions", "get_slice_image"},
        pl \in Planes \cup {"oblique"}, i \in VolIndices :
       /\ op = "get_volume_dimensions" => (pl = "axial" /\ i = 0)
       /\ inv = [p \in {1} |-> [op |-> op, pc |-> "call", files |-> fs, plane |-> pl,
                                index |-> i, cv |-> NoVolume, slice_data |-> <<>>,
                                ret |-> NoRet]]

NextVolume ==
  \/ \E p \in DOMAIN inv : GetVolumeDimensions(p)
  \/ \E p \in DOMAIN inv : GetSliceImage(p)

\* one call of get_volume_dimensions or get_slice_image on a fresh factory
SpecVolume == InitVolume /\ [][NextVolume]_vars

\* ---------------------------------------------------------- SpecAssemble
\* the catalogue entries SpecAssemble draws from: pixel arrays of every
\* dimensionality and datasets that declare some, all or none of the spacings
AssembleDatasets == {4, 5, 9, 11} \cup (12..21)

AssembleFiles == SeqsUpTo(AssembleDatasets, MaxFiles)

InitAssemble ==
  /\ jobs = NoJobs /\ running_jobs = NoJobs /\ tasks = <<>>
  /\ factory = Factory0
  /\ \E fs \in AssembleFiles, op \in {"get_volume_dimensions", "get_slice_image"} :
       inv = [p \in {1} |-> [op |-> op, pc |-> "call", files |-> fs, plane |-> "axial",
                                index |-> 0, cv |-> NoVolume, slice_data |-> <<>>,
                                ret |-> NoRet]]

NextAssemble ==
  \/ \E p \in DOMAIN inv : GetVolumeDimensions(p)
  \/ \E p \in DOMAIN inv : GetSliceImage(p)

\* one volume assembled from datasets of mixed kinds on a fresh factory
SpecAssemble == InitAssemble /\ [][NextAssemble]_vars

\* ============================================================ conversion
\* An invocation of op "convert" is one conversion as the service and the
\* background processor run it: set_parameters(iso_value, simplify_target_faces)
\* followed by generate(files, file_format).  Its record holds the request
\* (files, file_format, req_iso, req_target; None is <<>>), the locals of
\* generate and _extract_surface, and log, the stages it ran in order.

\* ------------------------------------------------- set_parameters (66-74)
SetParameters(p) ==
  /\ inv[p].op = "convert"
  /\ inv[p].pc = "set_parameters"
  /\ UNCHANGED jobvars
  /\ factory' = [factory EXCEPT
        !.iso_value = IF inv[p].req_iso # <<>> THEN inv[p].req_iso[1] ELSE @,
        !.simplify_target_faces = IF inv[p].req_target # <<>> THEN inv[p].req_target ELSE @]
  /\ inv' = [inv EXCEPT ![p].pc = "generate", ![p].log = Append(@, "set_parameters")]

\* the invocation ends by raising
Fail(p, exc, err, stage) ==
  [inv EXCEPT ![p].pc = "done", ![p].ret = Raise(exc, err), ![p].log = Append(@, stage)]

\* --------------------------------------------- generate, step 1 (80-88)
GenerateCreateVolume(p) ==
  /\ inv[p].op = "convert"
  /\ inv[p].pc = "generate"
  /\ UNCHANGED jobvars
  /\ IF inv[p].files = <<>>
     THEN /\ inv' = Fail(p, "ValueError", "no_files", "generate")
          /\ UNCHANGED factory
     ELSE \E cv \in {CreateVolume(Decoded(inv[p].files))} :
          /\ factory' = AfterCreateVolume(factory, cv)
          /\ inv' = IF cv.err # ""
                    THEN [inv EXCEPT ![p].pc = "done", ![p].cv = cv, ![p].ret = VolumeError(cv),
                                     ![p].log = Append(@, "create_volume")]
                    ELSE [inv EXCEPT ![p].pc = "extract_surface", ![p].cv = cv,
                                     ![p].log = Append(@, "create_volume")]

\* ------------------------------------------- _extract_surface (291-381)
\* volume.min(), volume.max()
VolMin(volume) == SeqMin([k \in 1..Len(volume) |-> ArrMin(volume[k])])
VolMax(volume) == SeqMax([k \in 1..Len(volume) |-> ArrMax(volume[k])])

\* (volume.min() + volume.max()) / 2 and vmin + (vmax - vmin) * 0.5
Midpoint(lo, hi) == lo + (hi - lo) \div 2

\* mutant: the retry level is the midpoint again
AltLevel_Half(lo, hi) == lo + (hi - lo) \div 2

\* vmin + (vmax - vmin) * 0.3
AltLevel(lo, hi) == lo + (3 * (hi - lo)) \div 10

\* lines 300-308: the level first chosen from the iso-value read from self
FirstLevel(iso_value, volume) ==
  IF iso_value < VolMin(volume) \/ iso_value > VolMax(volume)
  THEN Midpoint(VolMin(volume), VolMax(volume))
  ELSE iso_value

\* lines 295-308: reads self.iso_value
ExtractSurfaceBegin(p) ==
  /\ inv[p].op = "convert"
  /\ inv[p].pc = "extract_surface"
  /\ UNCHANGED jobvars
  /\ inv' = [inv EXCEPT ![p].pc = "extract_levels",
                        ![p].iso_value = <<factory.iso_value>>,
                        ![p].mc_level = FirstLevel(factory.iso_value, inv[p].cv.volume),
                        ![p].log = Append(@, "extract_surface")]
  /\ UNCHANGED factory

\* ndimage.gaussian_filter(volume, sigma=1.0) of a volume whose voxels are all
\* equal: every output voxel is the same weighted sum, the result has no variation
GaussianOfFlat(volume) == volume

\* the Sobel gradient magnitude of a volume whose voxels are all equal:
\* every difference is 0
SobelMagnitudeOfFlat(volume) ==
  [d \in 1..Len(volume) |-> [r \in 1..Len(volume[1]) |-> [c \in 1..Len(volume[1][1]) |-> 0]]]

\* mutant: the gradient field is used without checking that it varies
FlatFallback_NoGradientCheck(volume) ==
  [raises |-> FALSE, target |-> "gradient", vmin |-> 0, vmax |-> 0, relevel |-> TRUE]

\* lines 319-349: the field the surface is taken from when the volume has no
\* variation; raises is TRUE when the gradient has none either
FlatFallback(volume) ==
  LET smoothed == GaussianOfFlat(volume)
      grad == SobelMagnitudeOfFlat(volume)
  IN IF VolMin(smoothed) # VolMax(smoothed)
     THEN [raises |-> FALSE, target |-> "smoothed", vmin |-> VolMin(smoothed),
           vmax |-> VolMax(smoothed), relevel |-> FALSE]
     ELSE IF VolMin(grad) = VolMax(grad)
     THEN [raises |-> TRUE, target |-> "gradient", vmin |-> 0, vmax |-> 0, relevel |-> FALSE]
     ELSE [raises |-> FALSE, target |-> "gradient", vmin |-> VolMin(grad),
           vmax |-> VolMax(grad), relevel |-> TRUE]

\* mutant: the level is passed on as first chosen
StrictLevel_AsChosen(level, vmin, vmax) == level

\* lines 351-356: the level made to lie strictly inside (vmin, vmax)
StrictLevel(level, vmin, vmax) ==
  IF ~(vmin < level /\ level < vmax) THEN Midpoint(vmin, vmax) ELSE level

\* lines 310-356: reads self.voxel_spacing, settles target volume and level
ExtractSurfaceLevels(p) ==
  /\ inv[p].op = "convert"
  /\ inv[p].pc = "extract_levels"
  /\ UNCHANGED jobvars
  /\ UNCHANGED factory
  /\ LET volume == inv[p].cv.volume
         flat == VolMin(volume) = VolMax(volume)
     IN IF ~flat
        THEN inv' = [inv EXCEPT ![p].pc = "marching_cubes",
                        ![p].spacing = factory.voxel_spacing,
                        ![p].target = "volume",
                        ![p].vmin = VolMin(volume), ![p].vmax = VolMax(volume),
                        ![p].mc_level = StrictLevel(@, VolMin(volume), VolMax(volume))]
        ELSE \E fb \in {FlatFallback(volume)} :
             IF fb.raises
             THEN inv' = [Fail(p, "ValueError", "extraction_failed", "no_variation")
                            EXCEPT ![p].spacing = factory.voxel_spacing]
             ELSE inv' = [inv EXCEPT ![p].pc = "marching_cubes",
                             ![p].spacing = factory.voxel_spacing,
                             ![p].target = fb.target,
                             ![p].vmin = fb.vmin, ![p].vmax = fb.vmax,
                             ![p].mc_level =
                                StrictLevel(IF fb.relevel THEN Midpoint(fb.vmin, fb.vmax) ELSE @,
                                            fb.vmin, fb.vmax)]

\* A mesh: whether it has vertices, the face counts of its connected
\* components (its face count is their sum), and whether some vertex
\* coordinate is NaN or infinite.
Mesh(has_vertices, comps, nonfinite) ==
  [has_vertices |-> has_vertices, comps |-> comps, nonfinite |-> nonfinite]

RECURSIVE Sum(_)
Sum(s) == IF s = <<>> THEN 0 ELSE s[1] + Sum(Tail(s))

\* len(mesh.faces)
Faces(mesh) == Sum(mesh.comps)

\* min_faces of _remove_small_components
MinFaces == 100

\* What measure.marching_cubes can return for a level inside the range of a
\* volume with at least 2 voxels along each axis: (vertices, faces) with the
\* faces forming any components.  These are the cases the model tries.
McMeshes ==
  { Mesh(FALSE, <<>>, FALSE), Mesh(TRUE, <<>>, FALSE),
    Mesh(TRUE, <<150>>, FALSE), Mesh(TRUE, <<60, 30>>, FALSE),
    Mesh(TRUE, <<100, 99>>, FALSE), Mesh(TRUE, <<120, 60000, 150>>, FALSE) }

\* measure.marching_cubes raises for a volume with fewer than 2 voxels along
\* an axis or a level outside [min, max]
McRejects(volume, level, vmin, vmax) ==
  \/ \E a \in 1..3 : Shape3(volume)[a] < 2
  \/ level < vmin \/ level > vmax

\* line 360
McEmpty(mesh) == ~mesh.has_vertices \/ Faces(mesh) = 0

\* line 358: the first call of measure.marching_cubes
MarchingCubes(p) ==
  /\ inv[p].op = "convert"
  /\ inv[p].pc = "marching_cubes"
  /\ UNCHANGED jobvars
  /\ UNCHANGED factory
  /\ \/ inv' = [Fail(p, "ValueError", "extraction_failed", "marching_cubes")
                  EXCEPT ![p].levels = Append(@, inv[p].mc_level)]
     \/ /\ ~McRejects(inv[p].cv.volume, inv[p].mc_level, inv[p].vmin, inv[p].vmax)
        /\ \E m \in McMeshes :
             inv' = [inv EXCEPT ![p].pc = IF McEmpty(m) THEN "marching_cubes_retry" ELSE "make_mesh",
                                ![p].mesh = m,
                                ![p].levels = Append(@, inv[p].mc_level),
                                ![p].log = Append(@, "marching_cubes")]

\* lines 360-365: the second call, at the alternative level
MarchingCubesRetry(p) ==
  /\ inv[p].op = "convert"
  /\ inv[p].pc = "marching_cubes_retry"
  /\ UNCHANGED jobvars
  /\ UNCHANGED factory
  /\ LET alt_level == AltLevel(inv[p].vmin, inv[p].vmax)
     IN \/ inv' = [Fail(p, "ValueError", "extraction_failed", "marching_cubes")
                     EXCEPT ![p].levels = Append(@, alt_level)]
        \/ /\ ~McRejects(inv[p].cv.volume, alt_level, inv[p].vmin, inv[p].vmax)
           /\ \E m \in McMeshes :
                inv' = [inv EXCEPT ![p].pc = "make_mesh", ![p].mesh = m,
                                   ![p].levels = Append(@, alt_level),
                                   ![p].log = Append(@, "marching_cubes")]

\* max(large_components, key=lambda x: len(x.faces)): the first of the largest
RECURSIVE FirstMax(_)
FirstMax(s) ==
  IF Len(s) = 1 THEN s[1]
  ELSE LET m == FirstMax(Tail(s)) IN IF s[1] >= m THEN s[1] ELSE m

\* mutant: a component must exceed the threshold to survive
RemoveSmallComponents_Strict(mesh) ==
  LET large == SelectSeq(mesh.comps, LAMBDA n : n > MinFaces)
  IN IF Len(mesh.comps) = 1 THEN mesh
     ELSE IF large = <<>> THEN mesh
     ELSE [mesh EXCEPT !.comps = <<FirstMax(large)>>]

\* _remove_small_components (383-400)
RemoveSmallComponents(mesh) ==
  LET large == SelectSeq(mesh.comps, LAMBDA n : n >= MinFaces)
  IN IF Len(mesh.comps) = 1 THEN mesh
     ELSE IF large = <<>> THEN mesh
     ELSE [mesh EXCEPT !.comps = <<FirstMax(large)>>]

\* lines 367-378 (trimesh.Trimesh raising, or mesh.split raising, ends the
\* extraction with the error of line 381)
MakeMesh(p) ==
  /\ inv[p].op = "convert"
  /\ inv[p].pc = "make_mesh"
  /\ UNCHANGED jobvars
  /\ UNCHANGED factory
  /\ \/ inv' = Fail(p, "ValueError", "extraction_failed", "make_mesh")
     \/ inv' = [inv EXCEPT ![p].pc = "smooth", ![p].mesh = RemoveSmallComponents(@),
                           ![p].log = Append(@, "remove_small_components")]

\* ------------------------------------ generate, step 3 and _smooth_mesh
\* filter_laplacian moves the vertices: the faces stay, a coordinate may
\* become NaN (a vertex without neighbours)
Smoothed(mesh) == {mesh, [mesh EXCEPT !.nonfinite = TRUE]}

\* lines 96-98 and 459-480
Smooth(p) ==
  /\ inv[p].op = "convert"
  /\ inv[p].pc = "smooth"
  /\ UNCHANGED jobvars
  /\ UNCHANGED factory
  /\ IF ~factory.smooth
     THEN inv' = [inv EXCEPT ![p].pc = "validate"]
     ELSE IF Max2(0, factory.smooth_iterations) > 0
     THEN \/ \E m \in Smoothed(inv[p].mesh) :
               inv' = [inv EXCEPT ![p].pc = "validate", ![p].mesh = m,
                                  ![p].log = Append(@, "filter_laplacian")]
          \* filter_laplacian raises: mesh.smoothed() is returned, or raises
          \/ \E m \in Smoothed(inv[p].mesh) :
               inv' = [inv EXCEPT ![p].pc = "validate", ![p].mesh = m,
                                  ![p].log = Append(@, "smoothed_fallback")]
          \/ inv' = Fail(p, "Exception", "smoothing_failed", "smoothed_fallback")
     ELSE inv' = [inv EXCEPT ![p].pc = "validate", ![p].log = Append(@, "smoothing_disabled")]

\* ------------------------- _validate_and_dump_mesh (431-457), lines 100-105
\* mutant: only the face count is checked
MeshInvalid_FacesOnly(mesh) == Faces(mesh) = 0

\* the mesh is rejected: no faces (445), or NaN/Inf among the vertices (452)
MeshInvalid(mesh) == Faces(mesh) = 0 \/ mesh.nonfinite

\* the debug dumps written by _save_debug_mesh before the error is raised, by label
DebugDumps(mesh) ==
  IF Faces(mesh) = 0 THEN <<"save_debug:mesh_no_faces">>
  ELSE IF mesh.nonfinite THEN <<"save_debug:mesh_nan_inf", "save_debug:mesh_bad_vertices">>
  ELSE <<>>

Validate(p) ==
  /\ inv[p].op = "convert"
  /\ inv[p].pc = "validate"
  /\ UNCHANGED jobvars
  /\ UNCHANGED factory
  /\ IF MeshInvalid(inv[p].mesh)
     THEN inv' = [inv EXCEPT ![p].pc = "done", ![p].ret = Raise("ValueError", "invalid_mesh"),
                             ![p].log = (@ \o <<"validate">>) \o DebugDumps(inv[p].mesh)]
     ELSE inv' = [inv EXCEPT ![p].pc = "export", ![p].log = Append(@, "validate")]

\* ----------------------------------- _export_mesh (482-515), lines 107-111
\* file_format.lower(), on the format tags the model uses
Lower(tag) ==
  CASE tag \in {"STL", "Stl"} -> "stl"
    [] tag \in {"OBJ", "Obj"} -> "obj"
    [] tag \in {"PLY", "Ply"} -> "ply"
    [] tag = "GLB" -> "glb"
    [] OTHER -> tag

\* the file_type handed to mesh.export (lines 486-496)
FileType(file_format) ==
  LET format_lower == Lower(file_format)
  IN IF format_lower = "stl" THEN "stl"
     ELSE IF format_lower = "obj" THEN "obj"
     ELSE IF format_lower = "ply" THEN "ply"
     ELSE "stl"

\* the size below which an export is flagged (line 505)
SizeFloor == 100

\* len(out): the lengths tried lie on both sides of the floor
ExportLengths == {SizeFloor - 1, SizeFloor}

\* the bytes mesh.export(file_type) yields: the mesh in that format, size bytes long
Bytes(mesh, file_type, size) ==
  [kind |-> "bytes", exc |-> "", err |-> "", file_type |-> file_type, mesh |-> mesh,
   size |-> size]

\* mutant: an export below the floor is rejected
ExportMesh_RejectSmall(mesh, file_format) ==
  { [ret |-> IF n < SizeFloor THEN Raise("ValueError", "export_failed")
             ELSE Bytes(mesh, FileType(file_format), n),
     log |-> IF n < SizeFloor THEN <<"export", "small_export_warning">> ELSE <<"export">>]
      : n \in ExportLengths }
  \cup { [ret |-> Raise("ValueError", "export_failed"),
          log |-> <<"export", "save_debug:export_error">>] }

\* _export_mesh: what it returns or raises, and the stages it logs.  A short
\* result is flagged (505-506) and returned; when mesh.export raises, a debug
\* dump is attempted (511-512) and ValueError raised (515).
ExportMesh(mesh, file_format) ==
  { [ret |-> Bytes(mesh, FileType(file_format), n),
     log |-> IF n < SizeFloor THEN <<"export", "small_export_warning">> ELSE <<"export">>]
      : n \in ExportLengths }
  \cup { [ret |-> Raise("ValueError", "export_failed"),
          log |-> <<"export", "save_debug:export_error">>] }

\* lines 107-111
Export(p) ==
  /\ inv[p].op = "convert"
  /\ inv[p].pc = "export"
  /\ UNCHANGED jobvars
  /\ UNCHANGED factory
  /\ \E out \in ExportMesh(inv[p].mesh, inv[p].file_format) :
       inv' = [inv EXCEPT ![p].pc = "done", ![p].ret = out.ret, ![p].log = @ \o out.log]

\* ---------------------------------------------------------- SpecGenerate
\* a conversion request not yet started
Conversion(files, file_format, req_iso, req_target) ==
  [op |-> "convert", pc |-> "set_parameters", files |-> files,
   file_format |-> file_format, req_iso |-> req_iso, req_target |-> req_target,
   cv |-> NoVolume, iso_value |-> <<>>, mc_level |-> 0, spacing |-> <<>>,
   target |-> "", vmin |-> 0, vmax |-> 0, levels |-> <<>>,
   mesh |-> Mesh(FALSE, <<>>, FALSE), ret |-> NoRet, log |-> <<>>]

\* inputs: no file; a volume without variation (2 x 2 x 3, all 3.0); volumes
\* with variation, one and three slices deep; no usable dataset; slices of
\* differing shapes
GenFiles == {<<>>, <<2, 2>>, <<1>>, <<1, 2, 3>>, <<6>>, <<1, 4>>}

\* requested iso-values: none, below the range, its minimum, inside, its
\* maximum, above
GenIsoValues == {<<>>, <<0 - 5 * VScale>>, <<0>>, <<3 * VScale>>, <<11 * VScale>>, <<300 * VScale>>}

GenTargets == {<<>>, <<10000>>}

InitGenerate ==
  /\ jobs = NoJobs /\ running_jobs = NoJobs /\ tasks = <<>>
  /\ \E smooth \in BOOLEAN, iterations \in {0, 3} :
       factory = [Factory0 EXCEPT !.smooth = smooth, !.smooth_iterations = iterations]
  /\ \E fs \in GenFiles, fmt \in {"stl", "OBJ", "Ply", "glb"}, iso \in GenIsoValues, tf \in GenTargets :
       inv = [p \in {1} |-> Conversion(fs, fmt, iso, tf)]

NextGenerate ==
  \/ \E p \in DOMAIN inv : SetParameters(p)
  \/ \E p \in DOMAIN inv : GenerateCreateVolume(p)
  \/ \E p \in DOMAIN inv : ExtractSurfaceBegin(p)
  \/ \E p \in DOMAIN inv : ExtractSurfaceLevels(p)
  \/ \E p \in DOMAIN inv : MarchingCubes(p)
  \/ \E p \in DOMAIN inv : MarchingCubesRetry(p)
  \/ \E p \in DOMAIN inv : MakeMesh(p)
  \/ \E p \in DOMAIN inv : Smooth(p)
  \/ \E p \in DOMAIN inv : Validate(p)
  \/ \E p \in DOMAIN inv : Export(p)

\* one conversion (set_parameters, then generate) on a freshly built factory
SpecGenerate == InitGenerate /\ [][NextGenerate]_vars

\* ------------------------------------------------------------- SpecRace
\* Conversions of the background processor share its one factory
\* (background_processor.py 34, 116-134): set_parameters runs on the event
\* loop, generate on an executor thread, so the steps of one conversion
\* interleave with the steps of another and with slice and dimension calls.
InitRace ==
  /\ jobs = NoJobs /\ running_jobs = NoJobs /\ tasks = <<>>
  /\ factory = Factory0
  /\ \E iso2 \in {<<>>, <<2 * VScale>>}, op3 \in {"get_volume_dimensions", "get_slice_image"} :
       inv = [p \in 1..3 |->
                CASE p = 1 -> Conversion(<<1>>, "stl", <<3 * VScale>>, <<>>)
                  [] p = 2 -> Conversion(<<9, 10>>, "stl", iso2, <<>>)
                  [] p = 3 -> [op |-> op3, pc |-> "call", files |-> <<11>>, plane |-> "axial",
                               index |-> 0, cv |-> NoVolume, slice_data |-> <<>>, ret |-> NoRet]]

NextRace ==
  \/ \E p \in DOMAIN inv : SetParameters(p)
  \/ \E p \in DOMAIN inv : GenerateCreateVolume(p)
  \/ \E p \in DOMAIN inv : ExtractSurfaceBegin(p)
  \/ \E p \in DOMAIN inv : ExtractSurfaceLevels(p)
  \/ \E p \in DOMAIN inv : MarchingCubes(p)
  \/ \E p \in DOMAIN inv : MarchingCubesRetry(p)
  \/ \E p \in DOMAIN inv : MakeMesh(p)
  \/ \E p \in DOMAIN inv : Smooth(p)
  \/ \E p \in DOMAIN inv : Validate(p)
  \/ \E p \in DOMAIN inv : Export(p)
  \/ \E p \in DOMAIN inv : GetVolumeDimensions(p)
  \/ \E p \in DOMAIN inv : GetSliceImage(p)

\* two conversions and a slice or dimension call in flight on one factory
SpecRace == InitRace /\ [][NextRace]_vars

\* ----------------------------------------------------------- SpecHistory
\* Conversions run one after another on one factory: the service and the
\* background processor keep the factory they were built with
\* (service.py 113-117, background_processor.py 34) and only call
\* set_parameters and generate on it.
Turn(p) == \A q \in DOMAIN inv : q < p => inv[q].pc = "done"

HistoryFiles == {<<6>>, <<2, 2>>, <<1>>}

InitHistory ==
  /\ jobs = NoJobs /\ running_jobs = NoJobs /\ tasks = <<>>
  /\ factory = Factory0
  /\ \E fs1 \in HistoryFiles, iso1 \in {<<>>, <<3 * VScale>>},
        fs2 \in {<<6>>, <<1, 2, 3>>, <<9, 10>>}, iso2 \in {<<>>, <<2 * VScale>>} :
       inv = [p \in 1..2 |->
                IF p = 1 THEN Conversion(fs1, "stl", iso1, <<>>)
                ELSE Conversion(fs2, "obj", iso2, <<>>)]

NextHistory ==
  \/ \E p \in DOMAIN inv : Turn(p) /\ SetParameters(p)
  \/ \E p \in DOMAIN inv : Turn(p) /\ GenerateCreateVolume(p)
  \/ \E p \in DOMAIN inv : Turn(p) /\ ExtractSurfaceBegin(p)
  \/ \E p \in DOMAIN inv : Turn(p) /\ ExtractSurfaceLevels(p)
  \/ \E p \in DOMAIN inv : Turn(p) /\ MarchingCubes(p)
  \/ \E p \in DOMAIN inv : Turn(p) /\ MarchingCubesRetry(p)
  \/ \E p \in DOMAIN inv : Turn(p) /\ MakeMesh(p)
  \/ \E p \in DOMAIN inv : Turn(p) /\ Smooth(p)
  \/ \E p \in DOMAIN inv : Turn(p) /\ Validate(p)
  \/ \E p \in DOMAIN inv : Turn(p) /\ Export(p)

\* two conversions, the second starting when the first has ended
SpecHistory == InitHistory /\ [][NextHistory]_vars

\* ================================================================== edit
\* An invocation of op "edit" is one call of edit_mesh(mesh_content,
\* operation, box_center, box_size, output_format).  mesh_content holds the
\* mesh `original` serialised in content_format; box is how the editing box
\* lies relative to that mesh: "disjoint" from it, the mesh "inside" the box,
\* or "partial" overlap.

\* trimesh.load(f, file_type): the stored mesh when the bytes are decoded in
\* the format they were written in (a file of several geometries loads as a
\* Scene); bytes decoded as another format make the loader raise or give a
\* mesh that is not the stored one.  file_type is the decoder that was used.
LoadOutcomes(content_format, file_type, original) ==
  IF file_type = content_format
  THEN { [raises |-> FALSE, kind |-> "trimesh", mesh |-> original, file_type |-> file_type],
         [raises |-> FALSE, kind |-> "scene", mesh |-> original, file_type |-> file_type],
         [raises |-> TRUE, kind |-> "", mesh |-> original, file_type |-> file_type] }
  ELSE { [raises |-> TRUE, kind |-> "", mesh |-> original, file_type |-> file_type],
         [raises |-> FALSE, kind |-> "trimesh", mesh |-> Mesh(FALSE, <<>>, FALSE),
          file_type |-> file_type],
         [raises |-> FALSE, kind |-> "trimesh", mesh |-> Mesh(TRUE, <<7>>, TRUE),
          file_type |-> file_type] }

\* the solid left by the boolean operation is empty
NoOverlap(operation, box) ==
  \/ operation = "intersect" /\ box = "disjoint"
  \/ operation = "difference" /\ box = "inside"

\* the operation leaves the mesh as it was
Untouched(operation, box) ==
  \/ operation = "intersect" /\ box = "inside"
  \/ operation = "difference" /\ box = "disjoint"

\* Trimesh.is_empty
IsEmpty(mesh) == ~mesh.has_vertices \/ Faces(mesh) = 0

\* original_mesh.intersection(editing_box) / .difference(editing_box): the
\* boolean engine raises, or returns the solid; an empty solid comes back as
\* an empty Trimesh or as something that is not a Trimesh
BooleanOutcomes(operation, mesh, box) ==
  { [raises |-> TRUE, is_trimesh |-> FALSE, mesh |-> Mesh(FALSE, <<>>, FALSE)] }
  \cup
  ( IF NoOverlap(operation, box) \/ IsEmpty(mesh)
    THEN { [raises |-> FALSE, is_trimesh |-> TRUE, mesh |-> Mesh(FALSE, <<>>, FALSE)],
           [raises |-> FALSE, is_trimesh |-> TRUE, mesh |-> Mesh(TRUE, <<>>, FALSE)],
           [raises |-> FALSE, is_trimesh |-> FALSE, mesh |-> Mesh(FALSE, <<>>, FALSE)] }
    ELSE IF Untouched(operation, box)
    THEN { [raises |-> FALSE, is_trimesh |-> TRUE, mesh |-> mesh] }
    ELSE { [raises |-> FALSE, is_trimesh |-> TRUE,
            mesh |-> [mesh EXCEPT !.comps = <<Faces(mesh) \div 2 + 12>>]] } )

\* mutant: only the type of the result is checked
EditRejects_TypeOnly(result) == ~result.is_trimesh

\* line 611: the result is not a Trimesh, or is empty
EditRejects(result) == ~result.is_trimesh \/ IsEmpty(result.mesh)

\* the invocation ends with ret, having run the stages of log
EditEnds(p, ld, result, ret, log) ==
  [inv EXCEPT ![p].pc = "done", ![p].loaded = ld, ![p].edited = result,
              ![p].ret = ret, ![p].log = log]

NoLoad == [raises |-> FALSE, kind |-> "", mesh |-> Mesh(FALSE, <<>>, FALSE), file_type |-> ""]
NoResult == [raises |-> FALSE, is_trimesh |-> FALSE, mesh |-> Mesh(FALSE, <<>>, FALSE)]

\* edit_mesh (575-616)
EditMesh(p) ==
  /\ inv[p].op = "edit"
  /\ inv[p].pc = "call"
  /\ UNCHANGED jobvars
  /\ UNCHANGED factory
  /\ \E ld \in LoadOutcomes(inv[p].content_format, inv[p].output_format, inv[p].original) :
       IF ld.raises
       THEN inv' = EditEnds(p, ld, NoResult, Raise("ValueError", "load_failed"), <<"load">>)
       ELSE IF inv[p].operation \notin {"intersect", "difference"}
       THEN inv' = EditEnds(p, ld, NoResult, Raise("ValueError", "unknown_operation"), <<"load">>)
       ELSE IF ld.kind # "trimesh"
       THEN inv' = EditEnds(p, ld, NoResult, Raise("AttributeError", "boolean_failed"),
                            <<"load">>)
       ELSE \E bo \in BooleanOutcomes(inv[p].operation, ld.mesh, inv[p].box) :
            IF bo.raises
            THEN inv' = EditEnds(p, ld, bo, Raise("Exception", "boolean_failed"),
                                 <<"load", "boolean">>)
            ELSE IF EditRejects(bo)
            THEN inv' = EditEnds(p, ld, bo, Raise("ValueError", "empty_result"),
                                 <<"load", "boolean">>)
            ELSE \E out \in ExportMesh(bo.mesh, inv[p].output_format) :
                 inv' = EditEnds(p, ld, bo, out.ret, <<"load", "boolean">> \o out.log)

\* -------------------------------------------------------------- SpecEdit
\* an edit request not yet started
Edit(content_format, operation, box, output_format) ==
  [op |-> "edit", pc |-> "call", content_format |-> content_format,
   operation |-> operation, box |-> box, output_format |-> output_format,
   original |-> Mesh(TRUE, <<150>>, FALSE), loaded |-> NoLoad, edited |-> NoResult,
   ret |-> NoRet, log |-> <<>>]

EditOperations == {"intersect", "difference", "union", "INTERSECT"}
EditBoxes == {"disjoint", "inside", "partial"}
EditFormats == {"stl", "obj", "ply"}

InitEdit ==
  /\ jobs = NoJobs /\ running_jobs = NoJobs /\ tasks = <<>>
  /\ factory = Factory0
  /\ \E cf \in EditFormats, operation \in EditOperations, box \in EditBoxes,
        fmt \in EditFormats :
       inv = [p \in {1} |-> Edit(cf, operation, box, fmt)]

NextEdit ==
  \/ \E p \in DOMAIN inv : EditMesh(p)

\* one call of edit_mesh
SpecEdit == InitEdit /\ [][NextEdit]_vars

\* ===================================================== background jobs
\* BackgroundConversionProcessor and ConversionJobRepository.  jobs is the
\* job table (ConversionJobRepository._jobs), running_jobs the dict
\* _running_jobs (job id -> task), tasks the asyncio tasks created so far,
\* in order of creation.  A coroutine runs without interruption from one
\* await to the next; every action below is one such segment and ends with
\* the call that the await waits for already made.  Callers of
\* start_conversion_job and cancel_job are invocations in inv.

\* dict[key] = value and del dict[key]
Put(dict, key, value) ==
  [k \in DOMAIN dict \cup {key} |-> IF k = key THEN value ELSE dict[k]]
Remove(dict, key) ==
  IF DOMAIN dict \ {key} = {} THEN NoJobs ELSE [k \in DOMAIN dict \ {key} |-> dict[k]]

\* the fields of a job the processor reads and writes (create_job, 21-37)
Job(status, iso_value, arquivo_3d_id) ==
  [status |-> status, iso_value |-> iso_value, arquivo_3d_id |-> arquivo_3d_id]

\* update_job_status (52-65): a missing job is left alone; a keyword
\* argument that is None leaves its field as it was
UpdateJobStatus(table, job_id, status, arquivo_3d_id) ==
  IF job_id \in DOMAIN table
  THEN [table EXCEPT ![job_id].status = status,
                     ![job_id].arquivo_3d_id = IF arquivo_3d_id # <<>> THEN arquivo_3d_id ELSE @]
  ELSE table

\* asyncio.create_task(self._process_conversion_job(job_id)): pc is the await
\* the coroutine is suspended at, must_cancel that task.cancel() was called,
\* dicom the DICOM record fetched, result what the executor thread produced,
\* arquivo the id of the Arquivo3D record created
Task(job_id) ==
  [job_id |-> job_id, pc |-> "created", must_cancel |-> FALSE, cancelled |-> FALSE,
   dicom |-> [found |-> FALSE, files |-> <<>>], result |-> "none", arquivo |-> <<>>]

Returned(value) == [kind |-> "return", exc |-> "", err |-> "", value |-> value]

\* the coroutine of task t is suspended at pc and resumes normally
Suspended(t, pc) == t \in DOMAIN tasks /\ tasks[t].pc = pc /\ ~tasks[t].must_cancel

\* ------------------------------------------ start_conversion_job (38-60)
\* lines 41-46: the check of _running_jobs, then the lookup is awaited
StartConversionJobLookup(p) ==
  /\ inv[p].op = "start_conversion_job"
  /\ inv[p].pc = "call"
  /\ inv' = IF inv[p].job_id \in DOMAIN running_jobs
            THEN [inv EXCEPT ![p].pc = "done", ![p].ret = Returned(FALSE)]
            ELSE [inv EXCEPT ![p].pc = "await_46"]
  /\ UNCHANGED <<factory, jobs, running_jobs, tasks>>

\* lines 47-60: job is the dict of the table itself, its status is read now
StartConversionJobCreate(p) ==
  /\ inv[p].op = "start_conversion_job"
  /\ inv[p].pc = "await_46"
  /\ UNCHANGED <<factory, jobs>>
  /\ IF inv[p].job_id \notin DOMAIN jobs \/ jobs[inv[p].job_id].status # "PENDING"
     THEN /\ inv' = [inv EXCEPT ![p].pc = "done", ![p].ret = Returned(FALSE)]
          /\ UNCHANGED <<running_jobs, tasks>>
     ELSE /\ tasks' = Append(tasks, Task(inv[p].job_id))
          /\ running_jobs' = Put(running_jobs, inv[p].job_id, Len(tasks) + 1)
          /\ inv' = [inv EXCEPT ![p].pc = "done", ![p].ret = Returned(TRUE)]

\* -------------------------------------- _process_conversion_job (62-196)
\* the task moves on to the next await
Proceed(t, pc) == tasks' = [tasks EXCEPT ![t].pc = pc]

\* an exception reaches line 180: the job is marked FAILED (185-191)
Failing(t) ==
  /\ jobs' = UpdateJobStatus(jobs, tasks[t].job_id, "FAILED", <<>>)
  /\ Proceed(t, "await_185")

\* lines 64-72
TaskBegin(t) ==
  /\ Suspended(t, "created")
  /\ jobs' = UpdateJobStatus(jobs, tasks[t].job_id, "PROCESSING", <<>>)
  /\ Proceed(t, "await_66")
  /\ UNCHANGED <<factory, inv, running_jobs>>

\* line 75
TaskGetJob(t) ==
  /\ Suspended(t, "await_66")
  /\ Proceed(t, "await_75")
  /\ UNCHANGED <<factory, inv, jobs, running_jobs>>

\* lines 76-85
TaskProgress10(t) ==
  /\ Suspended(t, "await_75")
  /\ jobs' = UpdateJobStatus(jobs, tasks[t].job_id, "PROCESSING", <<>>)
  /\ Proceed(t, "await_80")
  /\ UNCHANGED <<factory, inv, running_jobs>>

\* what dicom_repository.get_dicom_by_id can find: no record, a record
\* without files, records with files
DicomRecords ==
  { [found |-> FALSE, files |-> <<>>], [found |-> TRUE, files |-> <<>>],
    [found |-> TRUE, files |-> <<6>>], [found |-> TRUE, files |-> <<1, 2, 3>>] }

\* line 87
TaskGetDicom(t) ==
  /\ Suspended(t, "await_80")
  /\ \E rec \in DicomRecords : tasks' = [tasks EXCEPT ![t].pc = "await_87", ![t].dicom = rec]
  /\ UNCHANGED <<factory, inv, jobs, running_jobs>>

\* lines 88-102
TaskProgress30(t) ==
  /\ Suspended(t, "await_87")
  /\ IF ~tasks[t].dicom.found \/ tasks[t].dicom.files = <<>>
     THEN Failing(t)
     ELSE /\ jobs' = UpdateJobStatus(jobs, tasks[t].job_id, "PROCESSING", <<>>)
          /\ Proceed(t, "await_97")
  /\ UNCHANGED <<factory, inv, running_jobs>>

\* line 104
TaskDownload(t) ==
  /\ Suspended(t, "await_97")
  /\ Proceed(t, "await_104")
  /\ UNCHANGED <<factory, inv, jobs, running_jobs>>

\* lines 105-114
TaskProgress40(t) ==
  /\ Suspended(t, "await_104")
  /\ jobs' = UpdateJobStatus(jobs, tasks[t].job_id, "PROCESSING", <<>>)
  /\ Proceed(t, "await_109")
  /\ UNCHANGED <<factory, inv, running_jobs>>

\* lines 116-127: set_parameters with the job's iso_value
TaskSetParameters(t) ==
  /\ Suspended(t, "await_109")
  /\ factory' = [factory EXCEPT
        !.iso_value = IF jobs[tasks[t].job_id].iso_value # <<>>
                      THEN jobs[tasks[t].job_id].iso_value[1] ELSE @]
  /\ jobs' = UpdateJobStatus(jobs, tasks[t].job_id, "PROCESSING", <<>>)
  /\ Proceed(t, "await_122")
  /\ UNCHANGED <<inv, running_jobs>>

\* lines 130-134: generate is handed to the executor
TaskRunInExecutor(t) ==
  /\ Suspended(t, "await_122")
  /\ tasks' = [tasks EXCEPT ![t].pc = "await_131", ![t].result = "submitted"]
  /\ UNCHANGED <<factory, inv, jobs, running_jobs>>

\* the executor thread runs factory.generate to its end, whether or not the
\* task still waits for it: it raises, or returns bytes
ExecutorGenerate(t) ==
  /\ t \in DOMAIN tasks
  /\ tasks[t].result = "submitted"
  /\ UNCHANGED <<inv, jobs, running_jobs>>
  /\ \E cv \in {CreateVolume(Decoded(tasks[t].dicom.files))} :
       /\ factory' = AfterCreateVolume(factory, cv)
       /\ \/ tasks' = [tasks EXCEPT ![t].result = "raise"]
          \/ /\ cv.err = ""
             /\ tasks' = [tasks EXCEPT ![t].result = "bytes"]

\* lines 136-142
TaskProgress80(t) ==
  /\ Suspended(t, "await_131")
  /\ tasks[t].result \in {"bytes", "raise"}
  /\ IF tasks[t].result = "raise"
     THEN Failing(t)
     ELSE /\ jobs' = UpdateJobStatus(jobs, tasks[t].job_id, "PROCESSING", <<>>)
          /\ Proceed(t, "await_137")
  /\ UNCHANGED <<factory, inv, running_jobs>>

\* lines 144-149
TaskUpload(t) ==
  /\ Suspended(t, "await_137")
  /\ Proceed(t, "await_144")
  /\ UNCHANGED <<factory, inv, jobs, running_jobs>>

\* lines 152-157
TaskProgress90(t) ==
  /\ Suspended(t, "await_144")
  /\ jobs' = UpdateJobStatus(jobs, tasks[t].job_id, "PROCESSING", <<>>)
  /\ Proceed(t, "await_152")
  /\ UNCHANGED <<factory, inv, running_jobs>>

\* lines 159-166: the Arquivo3D record is created, or the database raises
TaskCreateArquivo(t) ==
  /\ Suspended(t, "await_152")
  /\ \/ /\ tasks' = [tasks EXCEPT ![t].pc = "await_166", ![t].arquivo = <<t>>]
        /\ UNCHANGED jobs
     \/ Failing(t)
  /\ UNCHANGED <<factory, inv, running_jobs>>

\* lines 168-176
TaskCompleted(t) ==
  /\ Suspended(t, "await_166")
  /\ jobs' = UpdateJobStatus(jobs, tasks[t].job_id, "COMPLETED", tasks[t].arquivo)
  /\ Proceed(t, "await_169")
  /\ UNCHANGED <<factory, inv, running_jobs>>

\* lines 193-196, after line 178 or after the handler of line 180
TaskFinally(t) ==
  /\ t \in DOMAIN tasks
  /\ ~tasks[t].must_cancel
  /\ tasks[t].pc \in {"await_169", "await_185"}
  /\ running_jobs' = Remove(running_jobs, tasks[t].job_id)
  /\ Proceed(t, "done")
  /\ UNCHANGED <<factory, inv, jobs>>

\* The task resumes after task.cancel(): CancelledError is raised at the
\* await it was suspended at.  `except Exception` does not catch it; the
\* finally block runs when the coroutine had entered the try block.  A
\* coroutine that had not started yet ends without running any of its body.
TaskCancelled(t) ==
  /\ t \in DOMAIN tasks
  /\ tasks[t].must_cancel
  /\ tasks[t].pc # "done"
  /\ running_jobs' = IF tasks[t].pc = "created" THEN running_jobs
                     ELSE Remove(running_jobs, tasks[t].job_id)
  /\ tasks' = [tasks EXCEPT ![t].pc = "done", ![t].cancelled = TRUE]
  /\ UNCHANGED <<factory, inv, jobs>>

\* ------------------------------------------------- cancel_job (224-238)
\* lines 226-235: task.cancel() (without effect on a task that is done),
\* then the job is marked FAILED
CancelJob(p) ==
  /\ inv[p].op = "cancel_job"
  /\ inv[p].pc = "call"
  /\ UNCHANGED factory
  /\ IF inv[p].job_id \in DOMAIN running_jobs
     THEN /\ tasks' = [tasks EXCEPT ![running_jobs[inv[p].job_id]].must_cancel =
                                       (tasks[running_jobs[inv[p].job_id]].pc # "done")]
          /\ jobs' = UpdateJobStatus(jobs, inv[p].job_id, "FAILED", <<>>)
          /\ running_jobs' = running_jobs
          /\ inv' = [inv EXCEPT ![p].pc = "await_230"]
     ELSE /\ inv' = [inv EXCEPT ![p].pc = "done", ![p].ret = Returned(FALSE)]
          /\ UNCHANGED <<jobs, running_jobs, tasks>>

\* line 237
CancelJobReturn(p) ==
  /\ inv[p].op = "cancel_job"
  /\ inv[p].pc = "await_230"
  /\ inv' = [inv EXCEPT ![p].pc = "done", ![p].ret = Returned(TRUE)]
  /\ UNCHANGED <<factory, jobs, running_jobs, tasks>>

\* -------------------------------------------------------------- SpecJobs
\* the jobs of the table: j1 was just created, j2 is an older, completed
\* job; j0 is an id the table does not hold
JobIds == {"j1", "j2"}

StartCall(job_id) ==
  [op |-> "start_conversion_job", pc |-> "call", job_id |-> job_id, ret |-> NoRet]
CancelCall(job_id) ==
  [op |-> "cancel_job", pc |-> "call", job_id |-> job_id, ret |-> NoRet]

InitJobs ==
  /\ factory = Factory0
  /\ jobs = [j \in JobIds |-> IF j = "j1" THEN Job("PENDING", <<3 * VScale>>, <<>>)
                              ELSE Job("COMPLETED", <<>>, <<9>>)]
  /\ running_jobs = NoJobs
  /\ tasks = <<>>
  /\ \E s2 \in {"j0", "j1", "j2"}, c2 \in {"j0", "j1"} :
       inv = [p \in 1..4 |->
                CASE p = 1 -> StartCall("j1")
                  [] p = 2 -> StartCall(s2)
                  [] p = 3 -> CancelCall("j1")
                  [] p = 4 -> CancelCall(c2)]

NextJobs ==
  \/ \E p \in DOMAIN inv : StartConversionJobLookup(p)
  \/ \E p \in DOMAIN inv : StartConversionJobCreate(p)
  \/ \E p \in DOMAIN inv : CancelJob(p)
  \/ \E p \in DOMAIN inv : CancelJobReturn(p)
  \/ \E t \in DOMAIN tasks : TaskBegin(t)
  \/ \E t \in DOMAIN tasks : TaskGetJob(t)
  \/ \E t \in DOMAIN tasks : TaskProgress10(t)
  \/ \E t \in DOMAIN tasks : TaskGetDicom(t)
  \/ \E t \in DOMAIN tasks : TaskProgress30(t)
  \/ \E t \in DOMAIN tasks : TaskDownload(t)
  \/ \E t \in DOMAIN tasks : TaskProgress40(t)
  \/ \E t \in DOMAIN tasks : TaskSetParameters(t)
  \/ \E t \in DOMAIN tasks : TaskRunInExecutor(t)
  \/ \E t \in DOMAIN tasks : ExecutorGenerate(t)
  \/ \E t \in DOMAIN tasks : TaskProgress80(t)
  \/ \E t \in DOMAIN tasks : TaskUpload(t)
  \/ \E t \in DOMAIN tasks : TaskProgress90(t)
  \/ \E t \in DOMAIN tasks : TaskCreateArquivo(t)
  \/ \E t \in DOMAIN tasks : TaskCompleted(t)
  \/ \E t \in DOMAIN tasks : TaskFinally(t)
  \/ \E t \in DOMAIN tasks : TaskCancelled(t)

\* what the event loop and the executor do once it is ready to run: resumed
\* coroutines and submitted work; the arrival of calls is not among them
Scheduled ==
  \/ \E p \in DOMAIN inv : StartConversionJobCreate(p)
  \/ \E p \in DOMAIN inv : CancelJobReturn(p)
  \/ \E t \in DOMAIN tasks :
       \/ TaskBegin(t) \/ TaskGetJob(t) \/ TaskProgress10(t) \/ TaskGetDicom(t)
       \/ TaskProgress30(t) \/ TaskDownload(t) \/ TaskProgress40(t)
       \/ TaskSetParameters(t) \/ TaskRunInExecutor(t) \/ ExecutorGenerate(t)
       \/ TaskProgress80(t) \/ TaskUpload(t) \/ TaskProgress90(t)
       \/ TaskCreateArquivo(t) \/ TaskCompleted(t) \/ TaskFinally(t) \/ TaskCancelled(t)

\* calls of start_conversion_job and cancel_job on one processor; the event
\* loop runs every coroutine that is ready
SpecJobs == InitJobs /\ [][NextJobs]_vars /\ WF_vars(Scheduled)

\* ------------------------------------------------------------ SpecCreate
\* ConversionJobRepository.create_job and update_job_status called on one
\* table.  Time is counted in half seconds; datetime.now() yields an instant
\* not earlier than any it yielded before.

\* latest instant a call may run at
MaxInstant == 3

Instants == 0..MaxInstant

\* int(datetime.now().timestamp()): the whole seconds of an instant
WholeSeconds(instant) == instant \div 2

\* f"job_{dicom_id}_{seconds}"
JobId(dicom_id, seconds) == <<"job", dicom_id, seconds>>

\* job_data of create_job (lines 21-37), with the fields the model follows
JobData(job_id, data, instant) ==
  [id |-> job_id, dicom_id |-> data.dicom_id, professor_id |-> data.professor_id,
   status |-> "PENDING", iso_value |-> data.iso_value, created_at |-> instant,
   arquivo_3d_id |-> <<>>]

\* datetime.now() can yield this instant
ClockAt(instant) == \A j \in DOMAIN jobs : jobs[j].created_at <= instant

\* create_job (15-44): the coroutine has no await, it runs as one step
CreateJob(p) ==
  /\ inv[p].op = "create_job"
  /\ inv[p].pc = "call"
  /\ \E instant \in Instants :
       /\ ClockAt(instant)
       /\ \E job_id \in {JobId(inv[p].data.dicom_id, WholeSeconds(instant))} :
            /\ jobs' = Put(jobs, job_id, JobData(job_id, inv[p].data, instant))
            /\ inv' = [inv EXCEPT ![p].pc = "done",
                                  ![p].ret = Returned(JobData(job_id, inv[p].data, instant))]
  /\ UNCHANGED <<factory, running_jobs, tasks>>

\* update_job_status (52-65), called with a status and arquivo_3d_id
UpdateStatus(p) ==
  /\ inv[p].op = "update_job_status"
  /\ inv[p].pc = "call"
  /\ jobs' = UpdateJobStatus(jobs, inv[p].job_id, inv[p].status, inv[p].arquivo_3d_id)
  /\ inv' = [inv EXCEPT ![p].pc = "done",
                        ![p].ret = IF inv[p].job_id \in DOMAIN jobs
                                   THEN Returned(jobs'[inv[p].job_id]) ELSE Returned(<<>>)]
  /\ UNCHANGED <<factory, running_jobs, tasks>>

CreateCall(dicom_id, professor_id, iso_value) ==
  [op |-> "create_job", pc |-> "call",
   data |-> [dicom_id |-> dicom_id, professor_id |-> professor_id, iso_value |-> iso_value],
   ret |-> NoRet]

UpdateCall(job_id, status, arquivo_3d_id) ==
  [op |-> "update_job_status", pc |-> "call", job_id |-> job_id, status |-> status,
   arquivo_3d_id |-> arquivo_3d_id, ret |-> NoRet]

DicomIds == {7, 8}

\* three requests for conversions, and the completion of a job of DICOM 7
InitCreate ==
  /\ factory = Factory0
  /\ jobs = NoJobs /\ running_jobs = NoJobs /\ tasks = <<>>
  /\ \E d2 \in DicomIds, d3 \in DicomIds, prof \in {1, 2}, iso \in {<<>>, <<3 * VScale>>},
        s \in {WholeSeconds(i) : i \in Instants} :
       inv = [p \in 1..4 |->
                CASE p = 1 -> CreateCall(7, 1, iso)
                  [] p = 2 -> CreateCall(d2, prof, <<>>)
                  [] p = 3 -> CreateCall(d3, 2, <<>>)
                  [] p = 4 -> UpdateCall(JobId(7, s), "COMPLETED", <<5>>)]

NextCreate ==
  \/ \E p \in DOMAIN inv : CreateJob(p)
  \/ \E p \in DOMAIN inv : UpdateStatus(p)

\* jobs created and updated in one job table
SpecCreate == InitCreate /\ [][NextCreate]_vars

\* =========================================================== properties
\* ---- helpers of the properties of SpecVolume
Done(p) == inv[p].pc = "done"

\* the decoded input of invocation p
FilesOf(p) == Decoded(inv[p].files)

\* a dataset from which the loop collects slices
Usable(ds) == ds.decode = "ok" /\ ~RescaleRaises(ds) /\ Len(ds.shape) \in {2, 3}

SingleFrame(ds) == ds.decode = "ok" /\ ~RescaleRaises(ds) /\ Len(ds.shape) = 2

\* number of datasets of fs whose z-key is smaller than that of dataset j
Rank(fs, j) == Cardinality({i \in 1..Len(fs) : ZPositionBase(fs[i]) < ZPositionBase(fs[j])})

DistinctKeys(fs) ==
  \A i, j \in 1..Len(fs) : i # j => ZPositionBase(fs[i]) # ZPositionBase(fs[j])

\* C3: N single-frame slices with pairwise distinct z-keys, in any order: the
\* volume has depth N and depth index k holds the slice with the (k+1)-th
\* smallest z-key; with equal row/column dimensions the volume is assembled.
C3_DepthAndAscendingOrder ==
  \A p \in DOMAIN inv :
    LET fs == FilesOf(p)
        cv == inv[p].cv
    IN (Done(p) /\ fs # <<>> /\ (\A i \in 1..Len(fs) : SingleFrame(fs[i])) /\ DistinctKeys(fs))
       => /\ cv.err \in {"", "stack_shape_mismatch"}
          /\ (\A i \in 1..Len(fs) : fs[i].shape = fs[1].shape) => cv.err = ""
          /\ cv.err = "" =>
               /\ Len(cv.volume) = Len(fs)
               /\ \A k \in 1..Len(fs) :
                    \E j \in 1..Len(fs) :
                      /\ Rank(fs, j) = k - 1
                      /\ cv.slices[k].file = j
                      /\ cv.volume[k] = Plane2D(fs[j])

\* three single-frame slices with distinct keys, submitted out of order, assembled
C3_Witness ==
  \E p \in DOMAIN inv :
    LET fs == FilesOf(p)
    IN /\ Done(p) /\ Len(fs) = 3 /\ inv[p].cv.err = ""
       /\ \A i \in 1..3 : SingleFrame(fs[i])
       /\ DistinctKeys(fs)
       /\ ZPositionBase(fs[1]) > ZPositionBase(fs[2])

\* an invocation of get_slice_image that reached _extract_slice_data
Extracted(p) == inv[p].op = "get_slice_image" /\ Done(p) /\ inv[p].files # <<>> /\ inv[p].cv.err = ""

\* C4: for each of the three planes and every index, slice extraction fails
\* with an index error exactly when index < 0 or index >= the extent of the
\* plane's axis, and yields an image otherwise; no negative index is wrapped.
C4_IndexErrorExactlyOutOfRange ==
  \A p \in DOMAIN inv :
    (Extracted(p) /\ inv[p].plane \in Planes)
    => LET n == Shape3(inv[p].cv.volume)[Axis(inv[p].plane)]
           i == inv[p].index
       IN /\ (i < 0 \/ i >= n) <=> (inv[p].ret.kind = "raise" /\ inv[p].ret.exc = "IndexError")
          /\ (0 <= i /\ i < n) <=> inv[p].ret.kind = "png"

\* sagittal, index -1: an index error
C4_Witness ==
  \E p \in DOMAIN inv :
    /\ Extracted(p) /\ inv[p].plane = "sagittal" /\ inv[p].index = -1
    /\ inv[p].ret.kind = "raise" /\ inv[p].ret.exc = "IndexError"

\* C5: for a volume of shape (D, R, C) and an index i in range, axial yields the
\* R x C slice volume[i,:,:], coronal the D x C slice volume[:,i,:], sagittal the
\* D x R slice volume[:,:,i], and the image has these dimensions;
\* get_volume_dimensions returns (D, R, C); any other plane tag is an error.
C5_SliceAxesAndDimensions ==
  \A p \in DOMAIN inv :
    LET v == inv[p].cv.volume
        D == Len(inv[p].cv.slices)
        R == Len(inv[p].cv.slices[1].data)
        C == Len(inv[p].cv.slices[1].data[1])
        i == inv[p].index + 1
        sd == inv[p].slice_data
        H == IF inv[p].plane = "axial" THEN R ELSE D
        W == IF inv[p].plane = "sagittal" THEN R ELSE C
    IN /\ (Extracted(p) /\ inv[p].ret.kind = "png")
          => /\ Len(sd) = H /\ \A a \in 1..H : Len(sd[a]) = W
             /\ inv[p].ret.height = H /\ inv[p].ret.width = W
             /\ \A a \in 1..H, b \in 1..W :
                  sd[a][b] = CASE inv[p].plane = "axial" -> v[i][a][b]
                               [] inv[p].plane = "coronal" -> v[a][i][b]
                               [] inv[p].plane = "sagittal" -> v[a][b][i]
       /\ (Extracted(p) /\ inv[p].plane \notin Planes)
          => (inv[p].ret.kind = "raise" /\ inv[p].ret.err = "invalid_plane")
       /\ (inv[p].op = "get_volume_dimensions" /\ Done(p) /\ inv[p].files # <<>>
             /\ inv[p].cv.err = "")
          => (inv[p].ret.kind = "dims" /\ inv[p].ret.dims = <<D, R, C>>)

\* a coronal slice of a volume whose three extents differ
C5_Witness ==
  \E p \in DOMAIN inv :
    /\ Extracted(p) /\ inv[p].ret.kind = "png" /\ inv[p].plane = "coronal"
    /\ Shape3(inv[p].cv.volume) = <<1, 2, 3>>

\* the scalar values of a 2-D array
Values(data) == {data[a][b] : a \in 1..Len(data), b \in 1..Len(data[1])}

\* C6: normalisation of a slice: with minimum = maximum the image is all zero
\* and of the slice's shape; otherwise every value is in 0..255, the slice's
\* minimum maps to 0, its maximum to 255, and the map is monotone. The range
\* is that of the slice alone.
C6_Normalization ==
  \A p \in DOMAIN inv :
    (Extracted(p) /\ inv[p].ret.kind = "png")
    => LET sd == inv[p].slice_data
           px == inv[p].ret.pixels
           lo == CHOOSE x \in Values(sd) : \A y \in Values(sd) : x <= y
           hi == CHOOSE x \in Values(sd) : \A y \in Values(sd) : x >= y
           Cells == {<<a, b>> : a \in 1..Len(sd), b \in 1..Len(sd[1])}
       IN /\ Len(px) = Len(sd) /\ \A a \in 1..Len(sd) : Len(px[a]) = Len(sd[a])
          /\ \A c \in Cells : px[c[1]][c[2]] \in 0..255
          /\ lo = hi => \A c \in Cells : px[c[1]][c[2]] = 0
          /\ lo # hi =>
               /\ \A c \in Cells : sd[c[1]][c[2]] = lo => px[c[1]][c[2]] = 0
               /\ \A c \in Cells : sd[c[1]][c[2]] = hi => px[c[1]][c[2]] = 255
               /\ \A c, d \in Cells :
                    sd[c[1]][c[2]] <= sd[d[1]][d[2]] => px[c[1]][c[2]] <= px[d[1]][d[2]]

\* a slice with some variation whose range is not the range of its volume
C6_Witness ==
  \E p \in DOMAIN inv :
    /\ Extracted(p) /\ inv[p].ret.kind = "png"
    /\ ArrMin(inv[p].slice_data) # ArrMax(inv[p].slice_data)
    /\ ArrMin(inv[p].slice_data) # SeqMin([k \in 1..Len(inv[p].cv.volume) |-> ArrMin(inv[p].cv.volume[k])])

\* C8: assembly fails with "no valid slices" exactly when no dataset contributes
\* a slice; a dataset that cannot be decoded, has no pixel data or raises while
\* processed is skipped, and the slices of every other dataset are assembled.
C8_NoValidSlicesIffNoneUsable ==
  \A p \in DOMAIN inv :
    LET fs == FilesOf(p)
        cv == inv[p].cv
    IN (Done(p) /\ fs # <<>>)
       => /\ cv.err = "no_valid_slices" <=> \A k \in 1..Len(fs) : ~Usable(fs[k])
          /\ cv.err = "" =>
               /\ {cv.slices[i].file : i \in 1..Len(cv.slices)} = {k \in 1..Len(fs) : Usable(fs[k])}
               /\ \A k \in 1..Len(fs) :
                    Usable(fs[k]) =>
                      \A f \in 0..(Len(Contribution(fs[k], k)) - 1) :
                        \E i \in 1..Len(cv.volume) :
                          /\ cv.slices[i].file = k /\ cv.slices[i].frame = f
                          /\ cv.volume[i] = Contribution(fs[k], k)[f + 1].data

\* an undecodable dataset and one that raises, with a usable one between them:
\* the volume is assembled
C8_Witness ==
  \E p \in DOMAIN inv :
    LET fs == FilesOf(p)
    IN /\ Done(p) /\ Len(fs) = 3 /\ inv[p].cv.err = ""
       /\ fs[1].decode = "unreadable" /\ Usable(fs[2]) /\ RescaleRaises(fs[3])

\* C9: slices of differing row/column dimensions make the assembly fail with no
\* volume; an assembled volume's depth is the number of slices contributed
\* (multi-frame datasets expanded), none dropped.
C9_HeterogeneousShapesFail ==
  \A p \in DOMAIN inv :
    LET fs == FilesOf(p)
        cv == inv[p].cv
        contributed == Flatten([k \in 1..Len(fs) |->
                          IF Usable(fs[k]) THEN Contribution(fs[k], k) ELSE <<>>])
    IN (Done(p) /\ fs # <<>>)
       => /\ (\E i, j \in 1..Len(contributed) :
                Shape2(contributed[i].data) # Shape2(contributed[j].data))
             => /\ cv.err = "stack_shape_mismatch" /\ cv.volume = <<>>
                /\ inv[p].ret.kind = "raise"
          /\ cv.err = "" =>
               /\ Len(cv.volume) = Len(contributed)
               /\ \A k \in 1..Len(cv.volume) : Shape2(cv.volume[k]) = Shape2(cv.volume[1])

\* a 2 x 2 slice among 2 x 3 slices: the call fails
C9_Witness ==
  \E p \in DOMAIN inv :
    /\ Done(p) /\ Len(inv[p].files) = 3 /\ inv[p].cv.err = "stack_shape_mismatch"
    /\ inv[p].ret.kind = "raise"

\* ---- helpers of the properties of the conversion
Converting(p) == inv[p].op = "convert"

\* position of the first occurrence of stage in the log, 0 when absent
FirstAt(log, stage) ==
  IF \E i \in 1..Len(log) : log[i] = stage
  THEN CHOOSE i \in 1..Len(log) : log[i] = stage /\ \A j \in 1..(i - 1) : log[j] # stage
  ELSE 0

SmoothingStages == {"filter_laplacian", "smoothed_fallback", "smoothing_disabled"}

\* the conversion called measure.marching_cubes
ReachedMarchingCubes(p) ==
  Converting(p) /\ inv[p].spacing # <<>> /\ (inv[p].pc # "done" \/ inv[p].levels # <<>>)

\* C1: generate returns bytes only for a mesh that passed validation: a mesh
\* that, after extraction, component filtering and smoothing, has no face or a
\* NaN/infinite vertex coordinate makes generate raise; validation runs after
\* smoothing and before export, also when smoothing is disabled.
C1_OnlyValidatedMeshExported ==
  \A p \in DOMAIN inv :
    Converting(p) =>
      LET log == inv[p].log
          bad == Sum(inv[p].mesh.comps) = 0 \/ inv[p].mesh.nonfinite
      IN /\ inv[p].ret.kind = "bytes"
              => /\ inv[p].ret.mesh = inv[p].mesh /\ ~bad
                 /\ FirstAt(log, "validate") # 0
                 /\ FirstAt(log, "validate") < FirstAt(log, "export")
         /\ (inv[p].pc \in {"export", "done"} /\ FirstAt(log, "validate") # 0 /\ bad)
              => (inv[p].pc = "done" /\ inv[p].ret.kind = "raise"
                    /\ inv[p].ret.err = "invalid_mesh" /\ FirstAt(log, "export") = 0)
         /\ \A i \in 1..Len(log) :
              /\ log[i] \in SmoothingStages => FirstAt(log, "validate") \in {0} \cup (i + 1)..Len(log)
              /\ log[i] = "export" => FirstAt(log, "validate") \in 1..(i - 1)

\* smoothing is disabled and the extracted mesh has no face: generate raises
C1_Witness ==
  \E p \in DOMAIN inv :
    /\ Converting(p) /\ inv[p].pc = "done" /\ ~factory.smooth
    /\ inv[p].mesh.has_vertices /\ Faces(inv[p].mesh) = 0
    /\ inv[p].ret.kind = "raise" /\ inv[p].ret.err = "invalid_mesh"

\* C2: each conversion extracts its surface with the iso-value of its own
\* request and with the voxel spacing of its own volume, whatever other
\* invocations run on the factory at the same time.
C2_OwnIsoValueAndSpacing ==
  \A p \in DOMAIN inv :
    ReachedMarchingCubes(p) =>
      /\ inv[p].req_iso # <<>> => inv[p].iso_value = inv[p].req_iso
      /\ inv[p].spacing = inv[p].cv.voxel_spacing

\* the values of the voxels of a volume
VoxelValues(volume) ==
  {volume[d][r][c] : d \in 1..Len(volume), r \in 1..Len(volume[1]), c \in 1..Len(volume[1][1])}

\* C7: a volume without intensity variation never gives a silent empty or
\* invalid result: the conversion returns a mesh with faces obtained through
\* the smoothing/gradient fallback, or raises an extraction error; with a
\* constant gradient field it raises, and never calls marching cubes.
C7_FlatVolumeNeverSilent ==
  \A p \in DOMAIN inv :
    (Converting(p) /\ inv[p].pc = "done" /\ inv[p].files # <<>> /\ inv[p].cv.err = ""
       /\ Cardinality(VoxelValues(inv[p].cv.volume)) = 1)
    => /\ \/ inv[p].ret.kind = "raise" /\ inv[p].ret.err = "extraction_failed"
          \/ /\ inv[p].ret.kind = "bytes" /\ Sum(inv[p].ret.mesh.comps) > 0
             /\ inv[p].target \in {"smoothed", "gradient"}
       /\ Cardinality(VoxelValues(SobelMagnitudeOfFlat(inv[p].cv.volume))) = 1
            => /\ inv[p].ret.kind = "raise" /\ inv[p].ret.err = "extraction_failed"
               /\ inv[p].levels = <<>>

\* a flat volume (all 3.0) converted at iso-value 3.0: an extraction error
C7_Witness ==
  \E p \in DOMAIN inv :
    /\ Converting(p) /\ inv[p].pc = "done" /\ inv[p].files = <<2, 2>>
    /\ inv[p].req_iso = <<3 * VScale>>
    /\ inv[p].ret.kind = "raise" /\ inv[p].ret.err = "extraction_failed"

\* C10: when the face count after smoothing exceeds 50,000 and a target face
\* count is configured, the exported mesh has that target face count;
\* otherwise the face count is unchanged.
C10_DecimatedToTarget ==
  \A p \in DOMAIN inv :
    (Converting(p) /\ inv[p].ret.kind = "bytes")
    => IF inv[p].req_target # <<>> /\ Faces(inv[p].mesh) > 50000
       THEN Faces(inv[p].ret.mesh) = inv[p].req_target[1]
       ELSE Faces(inv[p].ret.mesh) = Faces(inv[p].mesh)

\* C11: edit returns mesh bytes only when the operation tag is intersect or
\* difference and the boolean result is a non-empty mesh; an unknown tag, or
\* a boolean result that is empty or not a mesh (difference with a box that
\* contains the mesh, intersect with a box disjoint from it), always fails
\* with an error and returns no bytes.
C11_EditBytesOnlyForNonEmptyResult ==
  \A p \in DOMAIN inv :
    (inv[p].op = "edit" /\ inv[p].pc = "done") =>
      LET empty == ~inv[p].edited.is_trimesh \/ ~inv[p].edited.mesh.has_vertices
                     \/ Sum(inv[p].edited.mesh.comps) = 0
          known == inv[p].operation \in {"intersect", "difference"}
          no_overlap == \/ inv[p].operation = "difference" /\ inv[p].box = "inside"
                        \/ inv[p].operation = "intersect" /\ inv[p].box = "disjoint"
      IN /\ inv[p].ret.kind \in {"bytes", "raise"}
         /\ inv[p].ret.kind = "bytes"
              => (known /\ ~empty /\ inv[p].ret.mesh = inv[p].edited.mesh)
         /\ (~known \/ empty \/ no_overlap) => inv[p].ret.kind = "raise"
         /\ (known /\ no_overlap /\ ~inv[p].loaded.raises /\ inv[p].loaded.kind = "trimesh"
               /\ ~inv[p].edited.raises)
              => (inv[p].ret.exc = "ValueError" /\ inv[p].ret.err = "empty_result")

\* difference with a box that contains the mesh: the empty Trimesh is refused
C11_Witness ==
  \E p \in DOMAIN inv :
    /\ inv[p].op = "edit" /\ inv[p].pc = "done"
    /\ inv[p].operation = "difference" /\ inv[p].box = "inside"
    /\ inv[p].edited.is_trimesh /\ inv[p].edited.mesh.has_vertices
    /\ inv[p].ret.kind = "raise" /\ inv[p].ret.err = "empty_result"

\* the file type a format tag stands for, case-insensitively; stl for any other tag
TagType(tag) ==
  CASE tag \in {"stl", "STL", "Stl"} -> "stl"
    [] tag \in {"obj", "OBJ", "Obj"} -> "obj"
    [] tag \in {"ply", "PLY", "Ply"} -> "ply"
    [] OTHER -> "stl"

\* C12: the exporter serialises as stl, obj or ply when the format tag equals
\* that name case-insensitively and as stl for every other tag; a result
\* shorter than the 100-byte floor is flagged but still returned.
C12_ExportFormatAndSizeFloor ==
  \A p \in DOMAIN inv :
    (Converting(p) /\ inv[p].pc = "done") =>
      LET flagged == \E i \in 1..Len(inv[p].log) : inv[p].log[i] = "small_export_warning"
      IN /\ inv[p].ret.kind = "bytes"
              => /\ inv[p].ret.file_type = TagType(inv[p].file_format)
                 /\ flagged <=> inv[p].ret.size < 100
         /\ flagged => (inv[p].ret.kind = "bytes" /\ inv[p].ret.mesh = inv[p].mesh)

\* the tag "OBJ" exported as obj, 99 bytes long: flagged and returned
C12_Witness ==
  \E p \in DOMAIN inv :
    /\ Converting(p) /\ inv[p].pc = "done" /\ inv[p].file_format = "OBJ"
    /\ inv[p].ret.kind = "bytes" /\ inv[p].ret.file_type = "obj" /\ inv[p].ret.size < 100
    /\ \E i \in 1..Len(inv[p].log) : inv[p].log[i] = "small_export_warning"

\* C13: no pipeline state outlives an invocation: whatever calls came
\* earlier on the factory, a conversion is processed with the iso-value of
\* its own request, or the configured default (100.0) when the request gives
\* none, and with the voxel spacing of its own volume.
C13_NoStateOutlivesInvocation ==
  \A p \in DOMAIN inv :
    Converting(p) =>
      /\ inv[p].iso_value # <<>>
           => inv[p].iso_value[1]
                = (IF inv[p].req_iso # <<>> THEN inv[p].req_iso[1] ELSE 100 * VScale)
      /\ ReachedMarchingCubes(p) => inv[p].spacing = inv[p].cv.voxel_spacing

\* the stages that write debug files into the temporary directory
DebugDumpStages ==
  {"save_debug:mesh_no_faces", "save_debug:mesh_nan_inf", "save_debug:mesh_bad_vertices",
   "save_debug:export_error"}

\* C14: no pipeline operation writes to the filesystem on any execution
\* path, the paths where validation or export fail included.
C14_NoFilesystemWrite ==
  \A p \in DOMAIN inv :
    Converting(p) => \A i \in 1..Len(inv[p].log) : inv[p].log[i] \notin DebugDumpStages

\* the failure kind the specification gives each failure
FailureKind(err) ==
  CASE err \in {"no_files", "no_valid_slices", "stack_shape_mismatch"} -> "InputError"
    [] err = "extraction_failed" -> "ExtractionError"
    [] err = "invalid_mesh" -> "ValidationError"
    [] err = "export_failed" -> "ExportError"
    [] err \in {"load_failed", "unknown_operation", "empty_result"} -> "EditError"
    [] err \in {"index_out_of_range", "invalid_plane"} -> "RangeError"
    [] OTHER -> "other"

\* C15: failures of different kinds (InputError, ExtractionError,
\* ValidationError, ExportError, EditError, RangeError) reach the caller as
\* different exception types, distinguishable without reading the message.
C15_FailureKindsDistinct ==
  \A p, q \in DOMAIN inv :
    (/\ inv[p].ret.kind = "raise" /\ inv[q].ret.kind = "raise"
     /\ FailureKind(inv[p].ret.err) # "other" /\ FailureKind(inv[q].ret.err) # "other"
     /\ FailureKind(inv[p].ret.err) # FailureKind(inv[q].ret.err))
    => inv[p].ret.exc # inv[q].ret.exc

\* least and greatest element of a non-empty set of integers
SetMin(S) == CHOOSE x \in S : \A y \in S : x <= y
SetMax(S) == CHOOSE x \in S : \A y \in S : x >= y

\* C16: for a volume with min < max, the level of the first marching-cubes
\* attempt is the iso-value when min < iso-value < max and the midpoint
\* min + (max - min)/2 otherwise (iso-value equal to min or max included);
\* every level passed to marching cubes, the retry level too, lies strictly
\* between min and max of the field extracted.
C16_LevelStrictlyInsideRange ==
  \A p \in DOMAIN inv :
    (Converting(p) /\ inv[p].levels # <<>>) =>
      LET lo == SetMin(VoxelValues(inv[p].cv.volume))
          hi == SetMax(VoxelValues(inv[p].cv.volume))
          iso == inv[p].iso_value[1]
      IN lo < hi =>
           /\ inv[p].levels[1] = (IF lo < iso /\ iso < hi THEN iso ELSE lo + (hi - lo) \div 2)
           /\ \A i \in 1..Len(inv[p].levels) : lo < inv[p].levels[i] /\ inv[p].levels[i] < hi

\* the iso-value equals the maximum of the volume: the midpoint is used
C16_Witness ==
  \E p \in DOMAIN inv :
    /\ Converting(p) /\ inv[p].files = <<1, 2, 3>> /\ inv[p].req_iso = <<11 * VScale>>
    /\ Len(inv[p].levels) = 2
    /\ inv[p].levels[1] * 2 = 11 * VScale

\* how often a stage occurs in a log
Occurrences(log, stage) == Cardinality({i \in 1..Len(log) : log[i] = stage})

\* C17: marching cubes is attempted at most twice in a conversion; the
\* second attempt happens only after a first one without vertices or without
\* faces, at level min + 0.3 * (max - min); when the second attempt gives no
\* vertices or faces either the conversion ends in an error; no other stage
\* runs twice.
C17_BoundedRetry ==
  [][\A p \in DOMAIN inv :
       Converting(p) =>
         /\ Len(inv'[p].levels) <= 2
         /\ (Len(inv[p].levels) = 1 /\ Len(inv'[p].levels) = 2)
              => /\ ~inv[p].mesh.has_vertices \/ Sum(inv[p].mesh.comps) = 0
                 /\ 10 * inv'[p].levels[2] = 10 * inv[p].vmin + 3 * (inv[p].vmax - inv[p].vmin)
         /\ (Len(inv'[p].levels) = 2 /\ inv'[p].pc = "done"
               /\ (~inv'[p].mesh.has_vertices \/ Sum(inv'[p].mesh.comps) = 0))
              => inv'[p].ret.kind = "raise"
         /\ \A stage \in {"set_parameters", "create_volume", "extract_surface",
                          "remove_small_components", "filter_laplacian",
                          "smoothed_fallback", "validate", "export"} :
              Occurrences(inv'[p].log, stage) <= 1
         /\ Occurrences(inv'[p].log, "marching_cubes") <= 2]_vars

\* both attempts came back without faces: the conversion ended in an error
C17_Witness ==
  \E p \in DOMAIN inv :
    /\ Converting(p) /\ inv[p].pc = "done" /\ Len(inv[p].levels) = 2
    /\ Occurrences(inv[p].log, "marching_cubes") = 2
    /\ Sum(inv[p].mesh.comps) = 0
    /\ inv[p].ret.kind = "raise" /\ inv[p].ret.err = "invalid_mesh"

\* the status changes a job may make
StatusMoves ==
  { <<"PENDING", "PROCESSING">>, <<"PROCESSING", "COMPLETED">>,
    <<"PROCESSING", "FAILED">>, <<"PENDING", "FAILED">> }

Started(j) ==
  \E p \in DOMAIN inv :
    /\ inv[p].op = "start_conversion_job" /\ inv[p].job_id = j
    /\ inv[p].ret.kind = "return" /\ inv[p].ret.value = TRUE

\* C20: every job for which start_conversion_job returned True eventually has
\* status COMPLETED or FAILED, and its id is eventually removed from
\* _running_jobs, whichever step raises and whenever cancel_job is called.
C20_StartedJobEndsAndIsRemoved ==
  \A j \in JobIds :
    /\ Started(j) ~> (jobs[j].status \in {"COMPLETED", "FAILED"})
    /\ Started(j) ~> (j \notin DOMAIN running_jobs)

\* C21: component filtering returns the mesh unchanged when it has exactly
\* one connected component or when no component has at least 100 faces;
\* otherwise a single component that has at least 100 faces and whose face
\* count is maximal among all components.  A component of exactly 100 faces
\* survives the threshold.
C21_ComponentFiltering ==
  [][\A p \in DOMAIN inv :
       (Converting(p) /\ inv[p].pc = "make_mesh" /\ inv'[p].pc = "smooth") =>
         LET before == inv[p].mesh.comps
             after == inv'[p].mesh.comps
         IN /\ inv'[p].mesh.has_vertices = inv[p].mesh.has_vertices
            /\ inv'[p].mesh.nonfinite = inv[p].mesh.nonfinite
            /\ IF Len(before) = 1 \/ (\A i \in 1..Len(before) : before[i] < 100)
               THEN after = before
               ELSE /\ Len(after) = 1
                    /\ after[1] >= 100
                    /\ \E i \in 1..Len(before) : before[i] = after[1]
                    /\ \A i \in 1..Len(before) : before[i] <= after[1]]_vars

\* components of 100 and 99 faces went in, the component of 100 faces came out
C21_Witness ==
  \E p \in DOMAIN inv :
    /\ Converting(p) /\ inv[p].pc = "smooth"
    /\ inv[p].mesh.comps = <<100>>
    /\ inv[p].log[Len(inv[p].log)] = "remove_small_components"

\* ---- helpers of the properties of SpecAssemble
\* the positions of the datasets of fs that declare a usable pixel spacing,
\* and of those that declare a usable slice thickness or inter-slice spacing
DeclaresPixelSpacing(fs) ==
  {i \in 1..Len(fs) : fs[i].decode = "ok" /\ fs[i].PixelSpacing.has /\ fs[i].PixelSpacing.ok}

DeclaresDepth(fs) ==
  {i \in 1..Len(fs) :
     /\ fs[i].decode = "ok"
     /\ \/ fs[i].SliceThickness.has /\ fs[i].SliceThickness.ok
        \/ fs[i].SpacingBetweenSlices.has /\ fs[i].SpacingBetweenSlices.ok}

\* the declared depth spacing of one dataset: its slice thickness, or else
\* its inter-slice spacing
DeclaredDepth(ds) ==
  IF ds.SliceThickness.has /\ ds.SliceThickness.ok THEN ds.SliceThickness.v
  ELSE ds.SpacingBetweenSlices.v

\* C22: row/column spacing equals the declared pixel spacing, or (1.0, 1.0)
\* when none is declared; depth spacing equals the declared slice thickness
\* or inter-slice spacing when present, otherwise the median of the
\* differences between consecutive sorted z-keys when at least two slices
\* exist, otherwise 1.0, whether or not pixel spacing is declared.
C22_VoxelSpacingDerivation ==
  \A p \in DOMAIN inv :
    (Done(p) /\ inv[p].files # <<>> /\ inv[p].cv.err = "") =>
      LET fs == FilesOf(p)
          slices == inv[p].cv.slices
          zs == [i \in 1..Len(slices) |-> slices[i].z]
          px == IF DeclaresPixelSpacing(fs) = {} THEN <<20, 20>>
                ELSE fs[SetMin(DeclaresPixelSpacing(fs))].PixelSpacing.v
          depth == IF DeclaresDepth(fs) # {} THEN DeclaredDepth(fs[SetMin(DeclaresDepth(fs))])
                   ELSE IF Len(slices) >= 2 THEN MedianTwentieths(Diffs(zs))
                   ELSE 20
      IN inv[p].cv.voxel_spacing = <<depth, px[1], px[2]>>

\* the loop reaches the classification of the dataset's pixel array
Classified(ds) == ds.decode = "ok" /\ ~RescaleRaises(ds)

\* the slices of invocation p that came from the dataset at position j, in
\* their order in the sorted list
SlicesFrom(p, j) == SelectSeq(inv[p].cv.slices, LAMBDA x : x.file = j)

\* the first axis of a 3-dimensional array equals a declared non-zero frame count
DeclaredFrames(ds) ==
  /\ Len(ds.shape) = 3
  /\ ds.NumberOfFrames.has /\ ds.NumberOfFrames.ok /\ ds.NumberOfFrames.v # 0
  /\ ds.shape[1] = ds.NumberOfFrames.v

\* ... else its last axis has length 3 or 4
Colour(ds) == Len(ds.shape) = 3 /\ ~DeclaredFrames(ds) /\ ds.shape[3] \in {3, 4}

\* ... else its first axis exceeds 4 and differs from the second
LargeLeadingAxis(ds) ==
  /\ Len(ds.shape) = 3 /\ ~DeclaredFrames(ds) /\ ~Colour(ds)
  /\ ds.shape[1] > 4 /\ ds.shape[1] # ds.shape[2]

\* 0.2989 R + 0.5870 G + 0.1140 B at row r, column c (0-based)
Luminance(ds, r, c) ==
  2989 * (Val(ds, <<r, c, 0>>) \div 10000) + 5870 * (Val(ds, <<r, c, 1>>) \div 10000)
    + 1140 * (Val(ds, <<r, c, 2>>) \div 10000)

\* C23: a 3-dimensional pixel array is classified in this order: first axis
\* equal to a declared non-zero frame count -> one slice per frame; else last
\* axis of length 3 or 4 -> exactly one grayscale slice 0.2989 R + 0.5870 G +
\* 0.1140 B; else first axis > 4 and different from the second -> one slice
\* per leading-axis plane.  A 2-dimensional array contributes exactly one
\* slice.  A declared frame count takes precedence over the colour reading.
C23_PixelArrayClassification ==
  \A p \in DOMAIN inv :
    Done(p) =>
      \A j \in 1..Len(inv[p].files) :
        LET ds == FilesOf(p)[j]
            mine == SlicesFrom(p, j)
            planes == {mine[i].data : i \in 1..Len(mine)}
        IN Classified(ds) =>
             /\ Len(ds.shape) = 2 => (Len(mine) = 1 /\ mine[1].data = Plane2D(ds))
             /\ (DeclaredFrames(ds) \/ LargeLeadingAxis(ds)) =>
                  /\ Len(mine) = ds.shape[1]
                  /\ \A i \in 1..ds.shape[1] :
                       \E k \in 1..Len(mine) :
                         /\ mine[k].frame = i - 1
                         /\ mine[k].data = [r \in 1..ds.shape[2] |-> [c \in 1..ds.shape[3] |->
                                               Val(ds, <<i - 1, r - 1, c - 1>>)]]
             /\ Colour(ds) =>
                  /\ Len(mine) = 1
                  /\ mine[1].data = [r \in 1..ds.shape[1] |-> [c \in 1..ds.shape[2] |->
                                        Luminance(ds, r - 1, c - 1)]]

\* a 2 x 2 x 3 array that declares 2 frames gave two slices; beside it a
\* colour image gave one
C23_Witness ==
  \E p \in DOMAIN inv :
    /\ Done(p) /\ Len(inv[p].files) = 2
    /\ DeclaredFrames(FilesOf(p)[1]) /\ FilesOf(p)[1].shape[3] = 3
    /\ Len(SlicesFrom(p, 1)) = 2
    /\ Colour(FilesOf(p)[2]) /\ Len(SlicesFrom(p, 2)) = 1

\* a pixel array that none of the four rules covers
OtherShape(ds) ==
  /\ Len(ds.shape) # 2
  /\ ~DeclaredFrames(ds) /\ ~Colour(ds) /\ ~LargeLeadingAxis(ds)

\* C24: a decoded pixel array of a shape not covered by the 2D, declared
\* multi-frame, colour or large-leading-axis rules (arrays of fewer than 2 or
\* more than 3 dimensions included) contributes exactly one first-plane
\* slice, and the slices of the remaining datasets are still collected.
C24_OtherShapeFirstPlane ==
  \A p \in DOMAIN inv :
    Done(p) =>
      \A j \in 1..Len(inv[p].files) :
        LET ds == FilesOf(p)[j]
        IN (Classified(ds) /\ OtherShape(ds)) =>
             /\ Len(SlicesFrom(p, j)) = 1
             /\ Len(ds.shape) = 3 => SlicesFrom(p, j)[1].data = Frame(ds, 0)
             /\ \A k \in 1..Len(inv[p].files) :
                  (Classified(FilesOf(p)[k]) /\ Len(FilesOf(p)[k].shape) = 2)
                    => Len(SlicesFrom(p, k)) = 1

\* a metadata field holds a value float() accepts
Usable1(attr) == attr.has /\ attr.ok

\* C25: the z-ordering key of a dataset is its slice-location value when
\* that field is present, otherwise the z-component of its image-position
\* field when that is present, otherwise 0.0; the image-position fallback is
\* used whenever no usable slice-location value is available.
C25_ZKeyFallback ==
  \A p \in DOMAIN inv :
    Done(p) =>
      \A j \in 1..Len(inv[p].files) :
        LET ds == FilesOf(p)[j]
            key == IF Usable1(ds.SliceLocation) THEN ds.SliceLocation.v
                   ELSE IF Usable1(ds.ImagePositionPatient) THEN ds.ImagePositionPatient.v
                   ELSE 0
        IN (Classified(ds) /\ Len(ds.shape) = 2) =>
             /\ Len(SlicesFrom(p, j)) = 1
             /\ SlicesFrom(p, j)[1].z = key

\* the dataset is read as a stack of frames
MultiFrame(ds) == DeclaredFrames(ds) \/ LargeLeadingAxis(ds)

\* C26: frame i of a multi-frame dataset with base key k has z-key
\* k + i * 0.1, and in the assembled volume the frames of one multi-frame
\* dataset appear in ascending frame-index order, whatever other datasets
\* are submitted with it.
C26_FramesKeepTheirOrder ==
  \A p \in DOMAIN inv :
    Done(p) =>
      \A j \in 1..Len(inv[p].files) :
        LET ds == FilesOf(p)[j]
            slices == inv[p].cv.slices
        IN (Classified(ds) /\ MultiFrame(ds)) =>
             /\ \A a \in 1..Len(slices) :
                  slices[a].file = j => slices[a].z = ZPositionBase(ds) + slices[a].frame
             /\ \A a, b \in 1..Len(slices) :
                  (slices[a].file = j /\ slices[b].file = j /\ a < b)
                    => slices[a].frame < slices[b].frame
             /\ inv[p].cv.err = "" =>
                  \A a \in 1..Len(slices) :
                    slices[a].file = j => inv[p].cv.volume[a] = Frame(ds, slices[a].frame)

\* a stack of five frames assembled with a single slice whose key lies among
\* the keys of the frames
C26_Witness ==
  \E p \in DOMAIN inv :
    /\ Done(p) /\ Len(inv[p].files) = 2 /\ inv[p].cv.err = ""
    /\ MultiFrame(FilesOf(p)[2]) /\ Len(SlicesFrom(p, 2)) = 5
    /\ \E a \in 2..Len(inv[p].cv.slices) :
         /\ inv[p].cv.slices[a].file = 1
         /\ inv[p].cv.slices[a - 1].file = 2
         /\ a < Len(inv[p].cv.slices)

\* C27: the smoothing step never propagates an error to the caller: with an
\* iteration count of 0 it returns the mesh unchanged, and when the Laplacian
\* filter fails with a positive count it returns the result of the fallback
\* smoothing instead of raising.
C27_SmoothingNeverRaises ==
  \A p \in DOMAIN inv :
    Converting(p) =>
      /\ (inv[p].pc = "done" /\ inv[p].ret.kind = "raise")
           => inv[p].ret.err # "smoothing_failed"
      /\ (\E i \in 1..Len(inv[p].log) : inv[p].log[i] = "smoothing_disabled")
           => ~inv[p].mesh.nonfinite

\* every call has returned and every task has ended
Quiescent ==
  /\ \A p \in DOMAIN inv : inv[p].pc = "done"
  /\ \A t \in DOMAIN tasks : tasks[t].pc = "done"

\* C28: whenever a job's processing has created the Arquivo3D record, the
\* job ends in status COMPLETED with arquivo_3d_id set to that record's id;
\* no job ends in status FAILED after its 3D file was uploaded and recorded,
\* under any timing of cancel_job.
C28_RecordedJobEndsCompleted ==
  Quiescent =>
    \A t \in DOMAIN tasks :
      tasks[t].arquivo # <<>> =>
        /\ jobs[tasks[t].job_id].status = "COMPLETED"
        /\ jobs[tasks[t].job_id].arquivo_3d_id = tasks[t].arquivo

\* the create_job calls that have returned
Created == {p \in DOMAIN inv : inv[p].op = "create_job" /\ inv[p].pc = "done"}

\* C29: create_job assigns every job an id distinct from all existing job
\* ids: creating a job never overwrites or resets the entry of another job
\* in the job table, two jobs created for the same dicom_id within the same
\* second included.
C29_JobIdsDistinct ==
  /\ \A p, q \in Created : p # q => inv[p].ret.value.id # inv[q].ret.value.id
  /\ Cardinality(DOMAIN jobs) = Cardinality(Created)

\* C30: when an edit asks for an output format other than the one the
\* original file is stored in, the original bytes are still decoded
\* according to the original file's format, and only the result is
\* serialised in the requested output format.
C30_OriginalDecodedInItsOwnFormat ==
  \A p \in DOMAIN inv :
    (inv[p].op = "edit" /\ inv[p].pc = "done"
       /\ inv[p].output_format # inv[p].content_format) =>
      /\ inv[p].loaded.file_type = inv[p].content_format
      /\ ~inv[p].loaded.raises => inv[p].loaded.mesh = inv[p].original
      /\ inv[p].ret.kind = "bytes" => inv[p].ret.file_type = inv[p].output_format

====
